---- MODULE Spec2Model ----
(***************************************************************************)
(* Model of the AI generation gateway of S-ACM                             *)
(* (src/apps/ai_features/services.py, src/apps/ai_features/models.py,      *)
(* src/apps/student/views.py).                                             *)
(*                                                                         *)
(* Time is counted in ticks.  One tick is one per-minute window of a       *)
(* credential's request budget.                                            *)
(***************************************************************************)
EXTENDS Integers, Sequences, FiniteSets, TLC

VARIABLES
    api_keys,        \* table APIKey: key id (pk) -> row
    fallback_keys,   \* HydraKeyManager._fallback_keys (.env keys, in order)
    current_index,   \* HydraKeyManager._current_index
    fallback_index,  \* HydraKeyManager._fallback_index
    now,             \* timezone.now(), in ticks
    obs,             \* what the last key-manager call did (observation)
    hist,            \* what the calls of the current run of get_next_key() returned
    service_enabled, \* AIConfiguration.is_service_enabled (live flag)
    svc,             \* the request's GeminiService: _client, _current_key_obj
    req,             \* the gateway request being handled and its position
    cache,           \* django cache: text -> cached generate_summary result
    usage_log,       \* table AIUsageLog, in insertion order
    ai_chats,        \* table AIChat: the stored answers, in insertion order
    artifacts,       \* number of files written by AIFileStorage
    rate_limit,      \* settings.AI_RATE_LIMIT_PER_HOUR
    documents,       \* the lecture texts on file, sent for generation
    pending,         \* the requests still to arrive: how many, and the
                     \* entry points their callers use
    fs,              \* the files under MEDIA_ROOT: relative path -> entry
    ck,              \* a SmartChunker and its chunk_text call
    th               \* the threads of concurrent callers and what they share

kmvars == <<api_keys, fallback_keys, current_index, fallback_index>>
kvars == <<obs, hist>>
gwvars == <<service_enabled, svc, req, cache, ai_chats, artifacts, documents,
           pending, ck, th>>
gvars == <<gwvars, fs>>
lvars == <<usage_log, rate_limit>>
vars == <<kmvars, now, kvars, gvars, lvars>>

(***************************************************************************)
(* Bounds of the model.                                                    *)
(***************************************************************************)
MaxTime == 2
MaxIndex == 4
MaxHist == 4
GMaxTime == 1
MaxRequests == 1
CMaxRequests == 2
SMaxTime == 1
MaxSaves == 2
MaxParas == 3
AMaxTime == 1
AMaxSaves == 2
QMaxPosts == 1
QMaxTime == 1
LMaxTime == 4
MaxLog == 2

KeyIds == {1, 2, 3}
EnvPools == {<<>>, <<101>>, <<101, 102>>}
NoKey == 0

\* The administrator's key tables the model starts from: per key
\* <<is_active, priority, secret decrypts>>.
KeyTables ==
    { <<(<<TRUE, 1, TRUE>>),  (<<TRUE, 1, TRUE>>),  (<<TRUE, 1, TRUE>>)>>,
      <<(<<TRUE, 2, TRUE>>),  (<<TRUE, 1, TRUE>>),  (<<FALSE, 1, TRUE>>)>>,
      <<(<<TRUE, 1, TRUE>>),  (<<TRUE, 1, FALSE>>), (<<TRUE, 2, TRUE>>)>>,
      <<(<<TRUE, 1, FALSE>>), (<<FALSE, 1, TRUE>>), (<<FALSE, 1, TRUE>>)>>,
      <<(<<FALSE, 1, TRUE>>), (<<FALSE, 1, TRUE>>), (<<FALSE, 1, TRUE>>)>> }

(***************************************************************************)
(* APIKey (the model class is not part of the sources at hand; its         *)
(* methods follow the specification's data model, sections 3 and 4.1).     *)
(***************************************************************************)
CooldownTicks == 1
RpmLimit == 2
ErrorThreshold == 2

KeyStatus == {"active", "cooling_down", "disabled", "error"}

\* APIKey.is_available(): active, or cooling down with the expiry passed.
is_available(k, t) ==
    \/ k.status = "active"
    \/ k.status = "cooling_down" /\ t >= k.cooldown_until

\* APIKey.check_rpm_limit(): requests counted in the current window < limit.
check_rpm_limit(k, t) ==
    k.rpm_window # t \/ k.rpm_count < RpmLimit

\* APIKey.get_key(): truthy when the stored secret decrypts.
get_key(k) == k.has_secret

\* APIKey.mark_error(msg, is_rate_limit)
mark_error(k, is_rate_limit, t) ==
    IF is_rate_limit
    THEN [k EXCEPT !.status = "cooling_down",
                   !.cooldown_until = t + CooldownTicks,
                   !.error_count = @ + 1]
    ELSE [k EXCEPT !.error_count = @ + 1,
                   !.status = IF k.error_count + 1 >= ErrorThreshold
                              THEN "disabled" ELSE @]

\* APIKey.mark_success(latency_ms)
mark_success(k, t) ==
    [k EXCEPT !.error_count = 0,
              !.rpm_count = IF k.rpm_window = t THEN @ + 1 ELSE 1,
              !.rpm_window = t]

(***************************************************************************)
(* HydraKeyManager                                                         *)
(***************************************************************************)
\* order_by('priority', 'pk')
Before(ks, a, b) ==
    \/ ks[a].priority < ks[b].priority
    \/ ks[a].priority = ks[b].priority /\ a < b

RECURSIVE OrderByPk(_, _)
OrderByPk(ks, S) ==
    IF S = {} THEN <<>>
    ELSE LET m == CHOOSE a \in S : \A b \in S : a <= b
         IN  <<m>> \o OrderByPk(ks, S \ {m})

RECURSIVE OrderBy(_, _)
OrderBy(ks, S) ==
    IF S = {} THEN <<>>
    ELSE LET m == CHOOSE a \in S : \A b \in S \ {a} : Before(ks, a, b)
         IN  <<m>> \o OrderBy(ks, S \ {m})

\* HydraKeyManager._get_db_keys()
get_db_keys(ks) ==
    OrderBy(ks, {k \in KeyIds : ks[k].is_active
                                /\ ks[k].status \notin {"disabled", "error"}})

AvailableKeysNoCooldown(ks, t) ==
    SelectSeq(get_db_keys(ks), LAMBDA id : check_rpm_limit(ks[id], t))

\* available_keys = [k for k in db_keys if k.is_available() and k.check_rpm_limit()]
AvailableKeys(ks, t) ==
    SelectSeq(get_db_keys(ks),
              LAMBDA id : is_available(ks[id], t) /\ check_rpm_limit(ks[id], t))

RoundRobinFirst(pool, idx) == pool[1]

\* pool[index % len(pool)]
RoundRobin(pool, idx) == pool[(idx % Len(pool)) + 1]

get_next_key_raise_on_decrypt(ks, fb, ci, fi, t) ==
    LET avail  == AvailableKeys(ks, t)
        picked == IF avail # <<>> THEN RoundRobin(avail, ci) ELSE NoKey
    IN  IF picked # NoKey
        THEN IF get_key(ks[picked])
             THEN [kind |-> "db", id |-> picked, tried |-> picked,
                   ci |-> ci + 1, fi |-> fi]
             ELSE [kind |-> "raise", id |-> NoKey, tried |-> picked,
                   ci |-> ci + 1, fi |-> fi]
        ELSE IF fb # <<>>
        THEN [kind |-> "env", id |-> RoundRobin(fb, fi), tried |-> picked,
              ci |-> ci, fi |-> fi + 1]
        ELSE [kind |-> "raise", id |-> NoKey, tried |-> picked,
              ci |-> ci, fi |-> fi]

\* HydraKeyManager.get_next_key(): what it returns or raises, and the indices
\* it leaves.  tried is the DB credential it selected (NoKey when none).
get_next_key(ks, fb, ci, fi, t) ==
    LET avail  == AvailableKeys(ks, t)
        picked == IF avail # <<>> THEN RoundRobin(avail, ci) ELSE NoKey
        ci2    == IF avail # <<>> THEN ci + 1 ELSE ci
    IN  IF picked # NoKey /\ get_key(ks[picked])
        THEN [kind |-> "db", id |-> picked, tried |-> picked,
              ci |-> ci2, fi |-> fi]
        ELSE IF fb # <<>>
        THEN [kind |-> "env", id |-> RoundRobin(fb, fi), tried |-> picked,
              ci |-> ci2, fi |-> fi + 1]
        ELSE [kind |-> "raise", id |-> NoKey, tried |-> picked,
              ci |-> ci2, fi |-> fi]

\* HydraKeyManager.rotate_after_error(failed_key_obj, error_msg, is_rate_limit)
rotate_after_error(ks, fb, ci, fi, failed, is_rate_limit, t) ==
    [keys |-> IF failed # NoKey
              THEN [ks EXCEPT ![failed] = mark_error(ks[failed], is_rate_limit, t)]
              ELSE ks,
     ci   |-> ci + 1,
     fi   |-> IF failed = NoKey /\ fb # <<>> THEN fi + 1 ELSE fi]

\* HydraKeyManager.total_keys
total_keys(ks, fb) == Len(get_db_keys(ks)) + Len(fb)

\* HydraKeyManager.has_keys
has_keys(ks, fb) == total_keys(ks, fb) > 0

(***************************************************************************)
(* AIUsageLog (src/apps/ai_features/models.py)                             *)
(***************************************************************************)
\* timedelta(hours=1): the clock of the model ticks three times an hour
HourTicks == 3

\* AI_RATE_LIMIT_PER_HOUR = int(os.getenv('AI_RATE_LIMIT_PER_HOUR', 9999))
DefaultRateLimit == 9999

Max2(a, b) == IF a >= b THEN a ELSE b
Min2(a, b) == IF a <= b THEN a ELSE b

RecentAllRequests(log, user, t) ==
    Len(SelectSeq(log, LAMBDA r : r.user = user /\ r.time >= t - HourTicks))

\* cls.objects.filter(user=user, request_time__gte=one_hour_ago,
\*                    was_cached=False).count()
RecentRequests(log, user, t) ==
    Len(SelectSeq(log, LAMBDA r : /\ r.user = user
                                  /\ r.time >= t - HourTicks
                                  /\ ~r.was_cached))

\* AIUsageLog.check_rate_limit(user)
check_rate_limit(log, user, t, limit) == RecentRequests(log, user, t) < limit

\* AIUsageLog.get_remaining_requests(user)
get_remaining_requests(log, user, t, limit) ==
    Max2(0, limit - RecentRequests(log, user, t))

\* AIUsageLog.log_request(user, ..., was_cached, success)
log_request(log, user, cached, ok, t) ==
    Append(log, [user |-> user, time |-> t, was_cached |-> cached,
                 success |-> ok])

(***************************************************************************)
(* GeminiService (src/apps/ai_features/services.py)                        *)
(***************************************************************************)
MAX_RETRIES == 3

\* The texts a request carries; NumChunks(text) is the number of chunks
\* SmartChunker.chunk_text(text) splits it into.  Text 3 is a second
\* single-chunk text that begins with the 200 characters text 1 begins with.
TextIds == {1, 2, 3}
NumChunks(text) == IF text = 3 THEN 1 ELSE text

\* text[:200], the part of the text _generate_cache_key hashes
Prefix200(text) == IF text = 3 THEN 1 ELSE text
Prefixes == {Prefix200(t) : t \in TextIds}

\* What one provider call answers.  An error carries the markers found in
\* its lower-cased message.
Outcomes ==
    { [kind |-> "text",       msg |-> {}],
      [kind |-> "unparsable", msg |-> {}],
      [kind |-> "empty",      msg |-> {}],
      [kind |-> "error",      msg |-> {"429", "quota"}],
      [kind |-> "error",      msg |-> {"resource_exhausted"}],
      [kind |-> "error",      msg |-> {"invalid", "key"}],
      [kind |-> "error",      msg |-> {}] }

\* any(kw in error_str for kw in ["rate", "quota", "429", "resource_exhausted"])
is_rate_limit(msg) ==
    msg \cap {"rate", "quota", "429", "resource_exhausted"} # {}

\* "invalid" in error_str and "key" in error_str
is_invalid_key(msg) == {"invalid", "key"} \subseteq msg

\* any(kw in str(last_exception).lower() for kw in ["quota", "429", "rate"])
is_quota_at_exhaustion(msg) == msg \cap {"quota", "429", "rate"} # {}

\* exception classes: subclasses of GeminiError, and "raw" for the provider
\* library's own exception
GeminiErrors == {"ServiceDisabled", "Configuration", "API", "RateLimit"}
IsGeminiError(exc) == exc \in GeminiErrors

Value(v) == [kind |-> "value", val |-> v]
Raise(e) == [kind |-> "raise", val |-> e]
NoRes == [kind |-> "none", val |-> "none"]
NoExc == [set |-> FALSE, msg |-> {}, gemini |-> FALSE]

NoClient == [kind |-> "none", id |-> NoKey]
NoSvc == [client |-> NoClient, cur |-> NoKey]

KM == [keys |-> api_keys, fb |-> fallback_keys,
       ci |-> current_index, fi |-> fallback_index]

UseKey(s, r) ==
    IF r.kind = "raise" THEN s
    ELSE [client |-> [kind |-> r.kind, id |-> r.id],
          cur |-> IF r.kind = "db" THEN r.id ELSE NoKey]

\* GeminiService.__init__ / _initialize_client
initialize_client(km, t) ==
    IF ~has_keys(km.keys, km.fb)
    THEN [svc |-> NoSvc, km |-> km]
    ELSE LET r == get_next_key(km.keys, km.fb, km.ci, km.fi, t)
         IN  [svc |-> UseKey(NoSvc, r),
              km  |-> [km EXCEPT !.ci = r.ci, !.fi = r.fi]]

\* GeminiService._reinitialize_with_next_key(error_msg, is_rate_limit)
reinitialize_with_next_key(s, km, rate_limited, t) ==
    LET rot == rotate_after_error(km.keys, km.fb, km.ci, km.fi, s.cur,
                                  rate_limited, t)
        r   == get_next_key(rot.keys, km.fb, rot.ci, rot.fi, t)
    IN  [svc |-> UseKey(s, r),
         km  |-> [km EXCEPT !.keys = rot.keys, !.ci = r.ci, !.fi = r.fi]]

\* whether a credential other than the one of client c can be acquired from
\* the key table ks and the environment pool fb at time t: get_next_key()
\* returns one for some value of the round-robin indices
OtherEligible(c, ks, fb, t) ==
    \E ci \in 0..Cardinality(KeyIds), fi \in 0..Len(fb) :
        LET r == get_next_key(ks, fb, ci, fi, t)
        IN  /\ r.kind # "raise"
            /\ [kind |-> r.kind, id |-> r.id] # c

\* the client of s holds a DB credential that is in cooldown at time t
OnCoolingKey(s, ks, t) ==
    /\ s.cur # NoKey
    /\ ks[s.cur].status = "cooling_down"
    /\ t < ks[s.cur].cooldown_until

\* max_attempts = min(total_keys, MAX_RETRIES) if total_keys > 0 else MAX_RETRIES
MaxAttempts(n) == IF n > 0 THEN Min2(n, MAX_RETRIES) ELSE MAX_RETRIES

\* the exception _generate_content ends with when the loop runs out
exhausted(last) ==
    IF last.set /\ is_quota_at_exhaustion(last.msg) THEN Raise("RateLimit")
    ELSE IF ~last.set \/ last.gemini THEN Raise("API")
    ELSE Raise("raw")

\* the end of a pass that failed and rotated: continue, and the loop goes on
\* with the next attempt or runs out
continue_loop(last, attempt, max_attempts) ==
    IF attempt + 1 < Max2(max_attempts, 1)
    THEN [next |-> "attempt", gen |-> NoRes]
    ELSE [next |-> "ret", gen |-> exhausted(last)]

\* One pass of the retry loop of _generate_content, from the provider's
\* answer o at time t up to the first wait: the return or raise ("ret"), the
\* next attempt ("attempt"), the sleep after the rotation of a rate-limit
\* answer ("sleep") or the sleep before the rotation of another error
\* ("backoff")
generate_attempt(s, km, t, o, attempt, max_attempts) ==
    LET last == [set |-> TRUE, msg |-> o.msg, gemini |-> (o.kind = "empty")]
    IN  IF o.kind \in {"text", "unparsable"}
        THEN [svc |-> s,
              km |-> IF s.cur # NoKey
                     THEN [km EXCEPT !.keys[s.cur] = mark_success(@, t)]
                     ELSE km,
              last |-> NoExc, next |-> "ret", gen |-> Value(o.kind)]
        ELSE IF is_rate_limit(o.msg)
        THEN LET re == reinitialize_with_next_key(s, km, TRUE, t)
             IN  [svc |-> re.svc, km |-> re.km, last |-> last,
                  next |-> "sleep", gen |-> NoRes]
        ELSE IF is_invalid_key(o.msg)
        THEN LET re == reinitialize_with_next_key(s, km, FALSE, t)
                 c  == continue_loop(last, attempt, max_attempts)
             IN  [svc |-> re.svc, km |-> re.km, last |-> last,
                  next |-> c.next, gen |-> c.gen]
        ELSE IF attempt < max_attempts - 1
        THEN [svc |-> s, km |-> km, last |-> last,
              next |-> "backoff", gen |-> NoRes]
        ELSE [svc |-> s, km |-> km, last |-> last,
              next |-> "ret", gen |-> Raise("API")]

\* the pass after its time.sleep returned at time t: the rotation that
\* follows the sleep of a plain error, and continue
after_sleep(s, km, t, backoff, last, attempt, max_attempts) ==
    LET re == IF backoff THEN reinitialize_with_next_key(s, km, FALSE, t)
              ELSE [svc |-> s, km |-> km]
        c  == continue_loop(last, attempt, max_attempts)
    IN  [svc |-> re.svc, km |-> re.km, next |-> c.next, gen |-> c.gen]

single_summary_reraise(gen) ==
    IF gen.kind = "value" THEN Value("ai") ELSE gen

\* GeminiService._generate_single_summary: try / except GeminiError
single_summary(gen) ==
    IF gen.kind = "value" THEN Value("ai")
    ELSE IF IsGeminiError(gen.val) THEN Value("fallback")
    ELSE gen

\* GeminiService.generate_questions_matrix: try / except GeminiError,
\* _parse_questions_json, _fallback_questions
questions_matrix(gen) ==
    IF gen.kind = "value"
    THEN IF gen.val = "text" THEN Value("questions") ELSE Value("empty_list")
    ELSE IF IsGeminiError(gen.val) THEN Value("fallback_questions")
    ELSE gen

\* GeminiService.ask_document: try / except GeminiError
ask_document(gen) ==
    IF gen.kind = "value" THEN Value("answer")
    ELSE IF IsGeminiError(gen.val) THEN Value("apology")
    ELSE gen

\* AIUsageLog.log_request is one INSERT: it returns the record or raises the
\* database's error
LedgerWrites == {"ok", "error"}

\* GeminiService.generate_and_save_questions: success flag of the envelope
save_questions_ok(q) == q.kind = "value" /\ q.val # "empty_list"

cache_set_first_answer(c, text, res) ==
    IF res.kind = "value" THEN [c EXCEPT ![text] = "ai"] ELSE c

\* cache_result: if result is not None: cache.set(...)
cache_set(c, text, res) ==
    IF res.kind = "value" THEN [c EXCEPT ![text] = res.val] ELSE c

\* _generate_cache_key(func.__name__, text, args, kwargs): one key per
\* function, text[:200] and arguments.  generate_summary(text) and the
\* generate_summary(text, user_notes=...) of generate_and_save_summary differ
\* in kwargs; generate_questions carries the number of questions in args.
cache_key(op, text, total) ==
    IF op = "summary" THEN Prefix200(text)
    ELSE IF op = "save_summary" THEN Cardinality(Prefixes) + Prefix200(text)
    ELSE 2 * Cardinality(Prefixes) + 2 * (Prefix200(text) - 1) + total + 1

CacheKeys == 1..(4 * Cardinality(Prefixes))

NoCache == [x \in CacheKeys |-> "none"]

\* GeminiService.test_connection: try / except GeminiError
test_connection(gen) ==
    IF gen.kind = "value" THEN Value("connected")
    ELSE IF IsGeminiError(gen.val) THEN Value("failure")
    ELSE gen

NoPre == [ci |-> 0, fi |-> 0, keys |-> <<>>, now |-> 0, nlog |-> 0, nchat |-> 0,
          nart |-> 0, cache |-> NoCache]

IdleReq ==
    [pc |-> "idle", op |-> "none", text |-> 0, ctx |-> "none", i |-> 0,
     parts |-> <<>>, attempt |-> 0, max_attempts |-> 0, last |-> NoExc,
     calls |-> 0, off |-> FALSE, allquota |-> FALSE, allfail |-> FALSE,
     expired |-> FALSE, gen |-> NoRes, out |-> NoRes, resp |-> "none",
     pre |-> NoPre, served |-> 0, total |-> 0, avail |-> 0,
     logfail |-> FALSE, from |-> NoClient, other |-> FALSE,
     oncooling |-> FALSE, succ |-> <<>>, slept |-> 0]

is_empty_matrix_never(total) == FALSE

\* if matrix.total_questions == 0: return []
is_empty_matrix(total) == total = 0

(***************************************************************************)
(* AIFileStorage (src/apps/ai_features/services.py)                        *)
(* A text is a sequence of characters; a path is the sequence of its       *)
(* components below MEDIA_ROOT.                                            *)
(***************************************************************************)
AI_OUTPUT_DIR == "ai_generated"

FileIds == {1, 2}
Contents == { <<"x", "\n", "y">>, <<"x", "\r", "\n", "y">> }
Metas == { <<>>, <<"k: v">> }

\* f"summary_{file_id}_{timestamp}.md" under AI_OUTPUT_DIR / category
SummaryPath(id, t) == <<AI_OUTPUT_DIR, "summary", <<"summary", id, t>>>>
CategoryDir == <<AI_OUTPUT_DIR, "summary">>
NonexistentPath == <<AI_OUTPUT_DIR, "nonexistent.md">>
StorePaths ==
    {SummaryPath(id, t) : id \in FileIds, t \in 0..SMaxTime}
        \cup {CategoryDir, NonexistentPath}

Absent == [kind |-> "absent", data |-> <<>>]
Directory == [kind |-> "dir", data |-> <<>>]
File(data) == [kind |-> "file", data |-> data]
EmptyFS == [p \in StorePaths |-> Absent]
None == [kind |-> "none", val |-> <<>>]

RECURSIVE MetaLines(_)
MetaLines(meta) ==
    IF meta = <<>> THEN <<>>
    ELSE <<Head(meta), "\n">> \o MetaLines(Tail(meta))

\* header = "---\n" + f"{k}: {v}\n"... + "---\n\n", empty without metadata
Header(meta) ==
    IF meta = <<>> THEN <<>>
    ELSE <<"---", "\n">> \o MetaLines(meta) \o <<"---", "\n", "\n">>

\* Path.write_text(data, encoding='utf-8'): text mode, "\n" written as
\* os.linesep, which is "\n" on the POSIX hosts the service runs on
write_text(data) == data

read_text_keep_newlines(data) == data

\* Path.read_text(encoding='utf-8'): text mode with universal newlines,
\* "\r\n" and "\r" are read as "\n"
RECURSIVE read_text(_)
read_text(data) ==
    IF data = <<>> THEN <<>>
    ELSE IF Head(data) = "\r"
    THEN IF Len(data) > 1 /\ data[2] = "\n"
         THEN <<"\n">> \o read_text(Tail(Tail(data)))
         ELSE <<"\n">> \o read_text(Tail(data))
    ELSE <<Head(data)>> \o read_text(Tail(data))

\* AIFileStorage._save_file via save_summary at time t
save_summary(files, id, content, meta, t) ==
    LET path == SummaryPath(id, t)
    IN  [fs  |-> [files EXCEPT ![CategoryDir] = Directory,
                               ![path] = File(write_text(Header(meta) \o content))],
         ret |-> path]

\* the three kinds of artifact and their file names:
\* f"summary_{file_id}_{timestamp}.md", f"questions_{file_id}_{timestamp}.md",
\* f"chat_{file_id}_{user_id}_{timestamp}.md"; the timestamp has the
\* resolution of a second
Categories == {"summary", "questions", "chat"}
UserIds == {1, 2}
QuestionsPath(id, t) == <<AI_OUTPUT_DIR, "questions", <<"questions", id, t>>>>
ChatPathNoUser(id, user, t) == <<AI_OUTPUT_DIR, "chat", <<"chat", id, t>>>>
ChatPath(id, user, t) == <<AI_OUTPUT_DIR, "chat", <<"chat", id, user, t>>>>
DirOf(category) == <<AI_OUTPUT_DIR, category>>

ArtifactPaths ==
    {SummaryPath(id, t) : id \in FileIds, t \in 0..AMaxTime}
        \cup {QuestionsPath(id, t) : id \in FileIds, t \in 0..AMaxTime}
        \cup {ChatPath(id, u, t) : id \in FileIds, u \in UserIds, t \in 0..AMaxTime}
        \cup {ChatPathNoUser(id, u, t) : id \in FileIds, u \in UserIds,
                                         t \in 0..AMaxTime}
        \cup {DirOf(c) : c \in Categories}

\* AIFileStorage._save_file: mkdir of the category, write_text, relative path
save_file(files, category, path, content, meta) ==
    [fs  |-> [files EXCEPT ![DirOf(category)] = Directory,
                           ![path] = File(write_text(Header(meta) \o content))],
     ret |-> path]

\* AIFileStorage._questions_to_markdown: a title line and the questions
questions_to_markdown(questions) == <<"# bank", "\n">> \o questions

\* AIFileStorage.save_questions at time t
save_questions(files, id, questions, t) ==
    save_file(files, "questions", QuestionsPath(id, t),
              questions_to_markdown(questions), <<>>)

\* AIFileStorage.save_chat_answer at time t
save_chat_answer(files, id, user, question, answer, t) ==
    save_file(files, "chat", ChatPath(id, user, t),
              <<"# q", "\n", "\n", question, "\n", "\n", "# a", "\n", "\n",
                answer, "\n">>, <<>>)

\* AIFileStorage.read_file: None when nothing exists or the read fails
read_file(files, path) ==
    IF files[path].kind = "file"
    THEN Value(read_text(files[path].data))
    ELSE None

delete_file_always_true(files, path) ==
    [fs |-> [files EXCEPT ![path] = Absent], ret |-> TRUE]

\* AIFileStorage.delete_file: unlink() of a directory raises and is caught
delete_file(files, path) ==
    IF files[path].kind = "file"
    THEN [fs |-> [files EXCEPT ![path] = Absent], ret |-> TRUE]
    ELSE [fs |-> files, ret |-> FALSE]

(***************************************************************************)
(* SmartChunker (src/apps/ai_features/services.py)                         *)
(* A text is a sequence of characters.                                     *)
(***************************************************************************)
IsSpace(c) == c \in {" ", "\n", "\t", "\r"}

RECURSIVE LStrip(_)
LStrip(s) ==
    IF s # <<>> /\ IsSpace(Head(s)) THEN LStrip(Tail(s)) ELSE s

RECURSIVE RStrip(_)
RStrip(s) ==
    IF s # <<>> /\ IsSpace(s[Len(s)]) THEN RStrip(SubSeq(s, 1, Len(s) - 1)) ELSE s

\* str.strip()
Strip(s) == RStrip(LStrip(s))

StartsWith(s, prefix) ==
    Len(s) >= Len(prefix) /\ SubSeq(s, 1, Len(prefix)) = prefix

Drop(s, n) == SubSeq(s, n + 1, Len(s))

\* str.find(sep) counted from 1: the first place where sep occurs in s, 0
\* when there is none
Find(s, sep) ==
    LET at == {i \in 1..(Len(s) - Len(sep) + 1) :
                  SubSeq(s, i, i + Len(sep) - 1) = sep}
    IN  IF at = {} THEN 0 ELSE CHOOSE i \in at : \A j \in at : i <= j

\* str.split(sep): the parts between the occurrences of sep, left to right
RECURSIVE Split(_, _)
Split(s, sep) ==
    IF Find(s, sep) = 0 THEN <<s>>
    ELSE <<SubSeq(s, 1, Find(s, sep) - 1)>>
            \o Split(Drop(s, Find(s, sep) + Len(sep) - 1), sep)

\* the slice s[-n:]: the last n characters, and the whole of s for n = 0
LastSlice(s, n) ==
    IF n = 0 \/ n >= Len(s) THEN s ELSE SubSeq(s, Len(s) - n + 1, Len(s))

ParaSep == <<"\n", "\n">>

\* the separators of _split_by_sentences that can occur in the texts of the
\* model, in the order of the list
SentenceSeps == << <<".", " ">>, <<".", "\n">> >>

\* one pass of the separator loop over one sentence: every part but the last
\* gets sep.strip() back, the last part is kept when it is not blank
RECURSIVE MarkParts(_, _)
MarkParts(parts, sep) ==
    IF Len(parts) = 1
    THEN IF Strip(parts[1]) # <<>> THEN <<parts[1]>> ELSE <<>>
    ELSE <<Head(parts) \o Strip(sep)>> \o MarkParts(Tail(parts), sep)

RECURSIVE SplitAll(_, _)
SplitAll(sentences, sep) ==
    IF sentences = <<>> THEN <<>>
    ELSE MarkParts(Split(Head(sentences), sep), sep)
            \o SplitAll(Tail(sentences), sep)

RECURSIVE Sentences(_, _)
Sentences(sentences, seps) ==
    IF seps = <<>> THEN sentences
    ELSE Sentences(SplitAll(sentences, Head(seps)), Tail(seps))

\* the accumulation loop of _split_by_sentences
RECURSIVE PackSentences(_, _, _, _)
PackSentences(sentences, chunks, current, size) ==
    IF sentences = <<>>
    THEN IF Strip(current) # <<>> THEN Append(chunks, Strip(current)) ELSE chunks
    ELSE LET sentence == Head(sentences)
         IN  IF Len(current) + Len(sentence) + 1 > size
             THEN PackSentences(Tail(sentences),
                                IF current # <<>>
                                THEN Append(chunks, Strip(current)) ELSE chunks,
                                sentence, size)
             ELSE PackSentences(Tail(sentences), chunks,
                                IF current # <<>>
                                THEN current \o <<" ">> \o sentence
                                ELSE sentence,
                                size)

\* SmartChunker._split_by_sentences(text)
split_by_sentences(text, size) ==
    PackSentences(Sentences(<<text>>, SentenceSeps), <<>>, <<>>, size)

\* a chunk of the result with what the properties need to know of it: the
\* overlap text it was started with, and whether it was started by closing
\* its predecessor
Chunk(text, seed, seeded) == [text |-> text, seed |-> seed, seeded |-> seeded]

RECURSIVE Plain(_)
Plain(texts) ==
    IF texts = <<>> THEN <<>>
    ELSE <<Chunk(Head(texts), <<>>, FALSE)>> \o Plain(Tail(texts))

\* overlap_text = current_chunk[-self.overlap:] if len(current_chunk) > self.overlap else ""
overlap_text(current, overlap) ==
    IF Len(current) > overlap THEN LastSlice(current, overlap) ELSE <<>>

next_chunk_seed_only(seed, para) == seed

\* current_chunk = overlap_text + "\n\n" + para
next_chunk(seed, para) == seed \o ParaSep \o para

\* the paragraph loop of chunk_text; cur is the chunk being filled
RECURSIVE ChunkLoop(_, _, _, _, _)
ChunkLoop(paragraphs, chunks, cur, size, overlap) ==
    IF paragraphs = <<>>
    THEN IF Strip(cur.text) # <<>>
         THEN Append(chunks, [cur EXCEPT !.text = Strip(@)]) ELSE chunks
    ELSE LET para == Strip(Head(paragraphs))
             rest == Tail(paragraphs)
             closed == IF cur.text # <<>>
                       THEN Append(chunks, [cur EXCEPT !.text = Strip(@)])
                       ELSE chunks
         IN  IF para = <<>>
             THEN ChunkLoop(rest, chunks, cur, size, overlap)
             ELSE IF Len(para) > size
             THEN ChunkLoop(rest, closed \o Plain(split_by_sentences(para, size)),
                            Chunk(<<>>, <<>>, FALSE), size, overlap)
             ELSE IF Len(cur.text) + Len(para) + 2 > size
             THEN IF cur.text # <<>>
                  THEN LET seed == overlap_text(cur.text, overlap)
                       IN  ChunkLoop(rest, closed,
                                     Chunk(next_chunk(seed, para), seed, TRUE),
                                     size, overlap)
                  ELSE ChunkLoop(rest, chunks, [cur EXCEPT !.text = para],
                                 size, overlap)
             ELSE ChunkLoop(rest, chunks,
                            [cur EXCEPT !.text = IF @ # <<>>
                                                 THEN @ \o ParaSep \o para
                                                 ELSE para],
                            size, overlap)

\* SmartChunker.chunk_text(text), every chunk with its seed
chunk_trace(text, size, overlap) ==
    IF text = <<>> THEN <<>>
    ELSE IF Len(text) <= size THEN <<Chunk(text, <<>>, FALSE)>>
    ELSE ChunkLoop(Split(text, ParaSep), <<>>, Chunk(<<>>, <<>>, FALSE),
                   size, overlap)

\* SmartChunker.chunk_text(text)
chunk_text(text, size, overlap) ==
    LET t == chunk_trace(text, size, overlap)
    IN  [i \in 1..Len(t) |-> t[i].text]

\* no concurrent callers
\* no request is to arrive
NoRequests == [n |-> 0, ops |-> {}]

NoThreads == [pc |-> <<>>, n |-> <<>>, loc |-> <<>>, sh |-> <<>>]

\* no chunk_text call yet
NoChunker ==
    [text |-> <<>>, chunk_size |-> 0, overlap |-> 0, done |-> FALSE,
     trace |-> <<>>, chunks |-> <<>>]

(***************************************************************************)
(* Specification SpecKeys: one caller driving the key manager.             *)
(***************************************************************************)
NoRet == [kind |-> "none", id |-> NoKey, tried |-> NoKey, ci |-> 0, fi |-> 0]
NoObs == [op |-> "init", ret |-> NoRet, pre_ci |-> 0, pre_fi |-> 0]

NewKey(act, prio, secret) ==
    [is_active |-> act, status |-> "active", priority |-> prio,
     cooldown_until |-> 0, error_count |-> 0,
     rpm_count |-> 0, rpm_window |-> 0, has_secret |-> secret]

\* HydraKeyManager.__init__ and the administrator's key table
KInit ==
    /\ \E tab \in KeyTables :
          api_keys = [k \in KeyIds |-> NewKey(tab[k][1], tab[k][2], tab[k][3])]
    /\ fallback_keys \in EnvPools
    /\ current_index = 0
    /\ fallback_index = 0
    /\ now = 0
    /\ obs = NoObs
    /\ hist = <<>>
    /\ service_enabled = TRUE
    /\ svc = NoSvc
    /\ req = IdleReq
    /\ cache = NoCache
    /\ ai_chats = <<>>
    /\ artifacts = 0
    /\ usage_log = <<>>
    /\ rate_limit = DefaultRateLimit
    /\ documents = {}
    /\ pending = NoRequests
    /\ th = NoThreads
    /\ fs = EmptyFS
    /\ ck = NoChunker

Tail1(s) == IF Len(s) > MaxHist THEN Tail(s) ELSE s

\* a caller runs get_next_key().  hist is the run of consecutive calls made
\* with the whole pool eligible and no error report in between: what each
\* returned, a DB credential, a fallback key, or NoKey when it raised
KGetNextKey ==
    /\ current_index < MaxIndex
    /\ fallback_index < MaxIndex
    /\ LET r == get_next_key(api_keys, fallback_keys, current_index,
                             fallback_index, now)
           clean == /\ get_db_keys(api_keys) # <<>>
                    /\ AvailableKeys(api_keys, now) = get_db_keys(api_keys)
       IN  /\ current_index' = r.ci
           /\ fallback_index' = r.fi
           /\ obs' = [op |-> "get", ret |-> r, pre_ci |-> current_index,
                      pre_fi |-> fallback_index]
           /\ hist' = IF clean THEN Tail1(Append(hist, r.id)) ELSE <<>>
    /\ UNCHANGED <<api_keys, fallback_keys, now, gvars, lvars>>

\* the caller reports an error of the key it holds: rotate_after_error()
KRotateAfterError ==
    /\ obs.ret.kind \in {"db", "env"}
    /\ current_index < MaxIndex
    /\ fallback_index < MaxIndex
    /\ \E quota \in BOOLEAN :
         LET r == rotate_after_error(api_keys, fallback_keys, current_index,
                                     fallback_index, obs.ret.id * (IF obs.ret.kind = "db" THEN 1 ELSE 0),
                                     quota, now)
         IN  /\ api_keys' = r.keys
             /\ current_index' = r.ci
             /\ fallback_index' = r.fi
             /\ obs' = [obs EXCEPT !.op = IF quota THEN "rotate_quota"
                                          ELSE "rotate_error",
                                   !.pre_ci = current_index,
                                   !.pre_fi = fallback_index]
    /\ hist' = <<>>
    /\ UNCHANGED <<fallback_keys, now, gvars, lvars>>

\* the caller reports a success of the DB key it holds: mark_success()
KMarkSuccess ==
    /\ obs.ret.kind = "db"
    /\ api_keys[obs.ret.id].rpm_count <= RpmLimit
    /\ api_keys' = [api_keys EXCEPT ![obs.ret.id] = mark_success(@, now)]
    /\ obs' = [obs EXCEPT !.op = "success"]
    /\ UNCHANGED <<fallback_keys, current_index, fallback_index, now, hist, gvars, lvars>>

\* time passes
KTick ==
    /\ now < MaxTime
    /\ now' = now + 1
    /\ obs' = [obs EXCEPT !.op = "tick"]
    /\ UNCHANGED <<kmvars, hist, gvars, lvars>>

KNext == KGetNextKey \/ KRotateAfterError \/ KMarkSuccess \/ KTick

SpecKeys == KInit /\ [][KNext]_vars

(***************************************************************************)
(* Specification SpecGateway: gateway requests, one at a time, each with   *)
(* its own GeminiService, against the shared key manager.                  *)
(*   summary   -- GeminiService().generate_summary(text)                   *)
(*   questions -- GeminiService().generate_and_save_questions(file, matrix)*)
(*   chat      -- AIChatView.post (student/views.py) around ask_document   *)
(*   gen_questions -- GeminiService().generate_questions(text, type, n)    *)
(*   save_summary  -- GeminiService().generate_and_save_summary(file)      *)
(*   test          -- GeminiService().test_connection()                    *)
(***************************************************************************)
Ops == {"summary", "questions", "chat", "gen_questions", "save_summary", "test"}

\* the operations that go through generate_summary, and the ones wrapped by
\* cache_result
SummaryOps == {"summary", "save_summary"}
CachedOps == {"summary", "save_summary", "gen_questions"}

\* the callers of a deployment: the views of the web application, the
\* background tasks and the administrator's connection test
ViewOps == {"summary", "questions", "chat"}
TaskOps == {"gen_questions", "save_summary", "test"}
CacheOps == {"summary", "questions", "gen_questions", "save_summary"}

\* request.user of the chat workflow
ChatUser == 1

\* time.sleep(min(int(retry_match.group(1)), 60)): at most one tick
MaxSleepTicks == 1

Snapshot ==
    [ci |-> current_index, fi |-> fallback_index, keys |-> api_keys,
     now |-> now, nlog |-> Len(usage_log), nchat |-> Len(ai_chats),
     nart |-> artifacts, cache |-> cache]

CooldownExpired(ks, t) ==
    \E k \in KeyIds : ks[k].status = "cooling_down" /\ t >= ks[k].cooldown_until

\* the key tables and environment pools the gateway starts from
GKeyTables ==
    { <<(<<TRUE, 1, TRUE>>),  (<<TRUE, 1, TRUE>>),  (<<TRUE, 1, TRUE>>)>>,
      <<(<<TRUE, 1, TRUE>>),  (<<FALSE, 1, TRUE>>), (<<FALSE, 1, TRUE>>)>>,
      <<(<<FALSE, 1, TRUE>>), (<<FALSE, 1, TRUE>>), (<<FALSE, 1, TRUE>>)>> }
GEnvPools == {<<>>, <<101, 102>>}

\* AI_RATE_LIMIT_PER_HOUR of the deployment the gateway runs in
GRateLimit == 1

GInit ==
    /\ \E tab \in GKeyTables :
          api_keys = [k \in KeyIds |-> NewKey(tab[k][1], tab[k][2], tab[k][3])]
    /\ fallback_keys \in GEnvPools
    /\ current_index = 0
    /\ fallback_index = 0
    /\ now = 0
    /\ obs = NoObs
    /\ hist = <<>>
    /\ service_enabled = TRUE
    /\ svc = NoSvc
    /\ req = IdleReq
    /\ cache = NoCache
    /\ ai_chats = <<>>
    /\ artifacts = 0
    /\ usage_log = <<>>
    /\ rate_limit = GRateLimit
    /\ documents = {1}
    /\ pending = [n |-> MaxRequests, ops |-> ViewOps]
    /\ th = NoThreads
    /\ fs = EmptyFS
    /\ ck = NoChunker

SetKM(km) ==
    /\ api_keys' = km.keys
    /\ current_index' = km.ci
    /\ fallback_index' = km.fi
    /\ UNCHANGED fallback_keys

\* A request arrives.  The chat view checks the user's quota first; then the
\* handler constructs GeminiService() and calls the operation, up to its
\* first _generate_content call.
GRequest ==
    /\ req.pc = "idle"
    /\ pending.n > 0
    /\ pending' = [pending EXCEPT !.n = @ - 1]
    /\ \E op \in pending.ops, text \in documents, total \in {0, 1} :
         /\ op \notin SummaryOps => text = 1
         /\ op \notin {"questions", "gen_questions"} => total = 1
         /\ LET base == [IdleReq EXCEPT !.op = op, !.text = text,
                            !.off = ~service_enabled, !.allquota = TRUE,
                            !.total = total,
                            !.allfail = TRUE, !.pre = Snapshot,
                            !.served = req.served]
                ini  == initialize_client(KM, now)
                key  == cache_key(op, text, total)
                hit  == op \in CachedOps /\ cache[key] # "none"
                none == op \in {"questions", "gen_questions"}
                           /\ is_empty_matrix(total)
            IN  IF op = "chat"
                   /\ ~check_rate_limit(usage_log, ChatUser, now, rate_limit)
                THEN /\ req' = [base EXCEPT !.pc = "done", !.resp = "rate_limited"]
                     /\ UNCHANGED <<kmvars, svc, cache, artifacts>>
                ELSE /\ svc' = ini.svc
                     /\ SetKM(ini.km)
                     /\ artifacts' = IF hit /\ op = "save_summary"
                                     THEN artifacts + 1 ELSE artifacts
                     /\ cache' = IF ~hit /\ none /\ op = "gen_questions"
                                 THEN cache_set(cache, key, Value("empty_list"))
                                 ELSE cache
                     /\ req' =
                          IF hit
                          THEN [base EXCEPT !.pc = "done",
                                            !.out = Value(cache[key]),
                                            !.resp = "ok"]
                          ELSE IF none
                          THEN [base EXCEPT !.pc = "done",
                                            !.out = Value("empty_list"),
                                            !.resp = IF op = "questions"
                                                     THEN "error" ELSE "ok"]
                          ELSE [base EXCEPT
                                  !.pc = "enter",
                                  !.expired = CooldownExpired(api_keys, now),
                                  !.i = 1,
                                  !.ctx = IF op \in SummaryOps
                                          THEN (IF NumChunks(text) <= 1
                                                THEN "single" ELSE "part")
                                          ELSE IF op = "questions"
                                          THEN "questions"
                                          ELSE IF op = "gen_questions"
                                          THEN "gen_questions"
                                          ELSE IF op = "test"
                                          THEN "test" ELSE "ask"]
    /\ UNCHANGED <<now, kvars, documents, fs, ck, th, service_enabled, ai_chats, lvars>>

\* _generate_content up to its retry loop: _check_service_enabled, the
\* is_available test, max_attempts
GEnter ==
    /\ req.pc = "enter"
    /\ req' =
         IF ~service_enabled
         THEN [req EXCEPT !.pc = "ret", !.gen = Raise("ServiceDisabled")]
         ELSE IF svc.client.kind = "none"
         THEN [req EXCEPT !.pc = "ret", !.gen = Raise("Configuration")]
         ELSE [req EXCEPT !.pc = "attempt", !.attempt = 0, !.last = NoExc,
                          !.gen = NoRes,
                          !.avail = Len(AvailableKeys(api_keys, now))
                                       + Len(fallback_keys),
                          !.max_attempts =
                              MaxAttempts(total_keys(api_keys, fallback_keys))]
    /\ UNCHANGED <<kmvars, now, kvars, documents, fs, ck, th, pending, service_enabled, svc, cache, ai_chats,
                   artifacts, lvars>>

\* one pass of the retry loop: self._client.models.generate_content(...) is
\* called with the client's credential
GAttempt ==
    /\ req.pc = "attempt"
    /\ req' = [req EXCEPT
                 !.pc = "wait",
                 !.calls = @ + 1,
                 !.from = NoClient,
                 !.other = FALSE,
                 !.oncooling = @ \/ OnCoolingKey(svc, api_keys, now)]
    /\ UNCHANGED <<kmvars, now, kvars, documents, fs, ck, th, pending,
                   service_enabled, svc, cache, ai_chats, artifacts, lvars>>

\* the provider answers, and the pass handles the answer up to its return,
\* its raise, its continue or its time.sleep
GAnswer ==
    /\ req.pc = "wait"
    /\ \E o \in Outcomes :
         LET r == generate_attempt(svc, KM, now, o, req.attempt,
                                   req.max_attempts)
             failed == o.kind \notin {"text", "unparsable"}
             rotated == failed /\ (is_rate_limit(o.msg) \/ is_invalid_key(o.msg))
             rot == rotate_after_error(api_keys, fallback_keys, current_index,
                                       fallback_index, svc.cur,
                                       is_rate_limit(o.msg), now)
         IN  /\ svc' = r.svc
             /\ SetKM(r.km)
             /\ req' = [req EXCEPT
                   !.pc = r.next,
                   !.attempt = IF r.next = "attempt" THEN @ + 1 ELSE @,
                   !.last = r.last,
                   !.gen = r.gen,
                   !.slept = 0,
                   !.from = IF rotated /\ r.next # "ret" THEN svc.client
                            ELSE NoClient,
                   !.other = rotated /\ r.next # "ret"
                               /\ OtherEligible(svc.client, rot.keys,
                                                fallback_keys, now),
                   !.allquota = @ /\ failed /\ is_quota_at_exhaustion(o.msg),
                   !.allfail = @ /\ failed,
                   !.expired = @ \/ (failed /\ (\/ CooldownExpired(api_keys, now)
                                                \/ CooldownExpired(r.km.keys, now)))]
    /\ UNCHANGED <<now, kvars, documents, fs, ck, th, pending, service_enabled,
                   cache, ai_chats, artifacts, lvars>>

\* time.sleep(...) returns: a plain error rotates now, and the loop continues
\* or runs out
GWake ==
    /\ req.pc \in {"sleep", "backoff"}
    /\ LET backoff == req.pc = "backoff"
           r == after_sleep(svc, KM, now, backoff, req.last, req.attempt,
                            req.max_attempts)
           rot == rotate_after_error(api_keys, fallback_keys, current_index,
                                     fallback_index, svc.cur, FALSE, now)
       IN  /\ svc' = r.svc
           /\ SetKM(r.km)
           /\ req' = [req EXCEPT
                 !.pc = r.next,
                 !.attempt = IF r.next = "attempt" THEN @ + 1 ELSE @,
                 !.gen = r.gen,
                 !.slept = 0,
                 !.from = IF r.next = "ret" THEN NoClient
                          ELSE IF backoff THEN svc.client ELSE @,
                 !.other = IF r.next = "ret" THEN FALSE
                           ELSE IF backoff
                           THEN OtherEligible(svc.client, rot.keys,
                                              fallback_keys, now)
                           ELSE @,
                 !.expired = @ \/ CooldownExpired(api_keys, now)
                               \/ CooldownExpired(r.km.keys, now)]
    /\ UNCHANGED <<now, kvars, documents, fs, ck, th, pending, service_enabled,
                   cache, ai_chats, artifacts, lvars>>

\* generate_summary around _generate_single_summary, for the chunk, the
\* merge or the whole text, and the cache_result wrapper; then the
\* save_summary of generate_and_save_summary
ReturnSummary ==
    LET one == single_summary(req.gen)
        n   == NumChunks(req.text)
    IN  IF one.kind = "raise"
        THEN /\ req' = [req EXCEPT !.pc = "done", !.out = one, !.resp = "error"]
             /\ UNCHANGED <<cache, artifacts>>
        ELSE IF req.ctx = "part"
        THEN /\ req' = [req EXCEPT !.pc = "enter",
                                   !.parts = Append(@, <<req.i, one.val>>),
                                   !.succ = Append(@, req.gen.kind = "value"),
                                   !.i = IF req.i < n THEN @ + 1 ELSE @,
                                   !.ctx = IF req.i < n THEN "part" ELSE "merge"]
             /\ UNCHANGED <<cache, artifacts>>
        ELSE /\ req' = [req EXCEPT !.pc = "done", !.out = one, !.resp = "ok"]
             /\ cache' = cache_set(cache, cache_key(req.op, req.text, req.total),
                                   one)
             /\ artifacts' = IF req.op = "save_summary" THEN artifacts + 1
                             ELSE artifacts

\* the caller of _generate_content takes its result
GReturn ==
    /\ req.pc = "ret"
    /\ IF req.ctx \in {"single", "part", "merge"}
       THEN /\ ReturnSummary
            /\ UNCHANGED <<ai_chats, usage_log>>
       ELSE IF req.ctx = "gen_questions"
       THEN LET q == questions_matrix(req.gen)
            IN  /\ req' = [req EXCEPT !.pc = "done", !.out = q,
                              !.resp = IF q.kind = "value" THEN "ok" ELSE "error"]
                /\ cache' = cache_set(cache,
                                      cache_key(req.op, req.text, req.total), q)
                /\ UNCHANGED <<artifacts, ai_chats, usage_log>>
       ELSE IF req.ctx = "test"
       THEN LET r == test_connection(req.gen)
            IN  /\ req' = [req EXCEPT !.pc = "done", !.out = r,
                              !.resp = IF r = Value("connected") THEN "ok"
                                       ELSE "error"]
                /\ UNCHANGED <<cache, artifacts, ai_chats, usage_log>>
       ELSE IF req.ctx = "questions"
       THEN LET q == questions_matrix(req.gen)
            IN  /\ req' = [req EXCEPT !.pc = "done", !.out = q,
                              !.resp = IF save_questions_ok(q) THEN "ok" ELSE "error"]
                /\ artifacts' = IF save_questions_ok(q) THEN artifacts + 1
                                ELSE artifacts
                /\ UNCHANGED <<cache, ai_chats, usage_log>>
       ELSE \E w \in LedgerWrites :
            LET a == ask_document(req.gen)
                logged == a.kind = "value" /\ w = "ok"
            IN  /\ req' = [req EXCEPT !.pc = "done", !.out = a,
                              !.resp = IF logged THEN "ok" ELSE "error",
                              !.logfail = (a.kind = "value" /\ w = "error")]
                /\ ai_chats' = IF a.kind = "value" THEN Append(ai_chats, a.val)
                               ELSE ai_chats
                /\ usage_log' = IF logged
                                THEN log_request(usage_log, ChatUser, FALSE, TRUE, now)
                                ELSE usage_log
                /\ UNCHANGED <<cache, artifacts>>
    /\ UNCHANGED <<kmvars, now, kvars, documents, fs, ck, th, pending, service_enabled, svc, rate_limit>>

\* the response has been sent
GFinish ==
    /\ req.pc = "done"
    /\ req' = [IdleReq EXCEPT !.served = req.served + 1]
    /\ svc' = NoSvc
    /\ UNCHANGED <<kmvars, now, kvars, documents, fs, ck, th, pending, service_enabled, cache, ai_chats,
                   artifacts, lvars>>

\* views.py:368-375: AIChatClearView.post deletes the user's chat rows of
\* the file
GClear ==
    /\ ai_chats' = <<>>
    /\ UNCHANGED <<kmvars, now, kvars, documents, fs, ck, th, pending,
                   service_enabled, svc, req, cache, artifacts, lvars>>

\* the administrator switches the service off or on, between requests,
\* between the _generate_content calls of a request, while a provider call
\* is in flight or while the retry loop sleeps
GToggleService ==
    /\ req.pc \in {"idle", "enter", "wait", "sleep", "backoff"}
    /\ service_enabled' = ~service_enabled
    /\ req' = [req EXCEPT !.off = FALSE]
    /\ UNCHANGED <<kmvars, now, kvars, documents, fs, ck, th, pending, svc, cache, ai_chats, artifacts, lvars>>

\* time passes between requests, while a provider call is in flight, and
\* (at most MaxSleepTicks) during a time.sleep of the retry loop
GTick ==
    /\ \/ req.pc \in {"idle", "wait"}
       \/ req.pc \in {"sleep", "backoff"} /\ req.slept < MaxSleepTicks
    /\ now < GMaxTime
    /\ now' = now + 1
    /\ req' = IF req.pc \in {"sleep", "backoff"}
              THEN [req EXCEPT !.slept = @ + 1] ELSE req
    /\ UNCHANGED <<kmvars, kvars, service_enabled, svc, cache, ai_chats,
                   artifacts, documents, pending, th, fs, ck, lvars>>

GNext ==
    \/ GRequest \/ GEnter \/ GAttempt \/ GAnswer \/ GWake \/ GReturn
    \/ GFinish \/ GClear \/ GToggleService \/ GTick

SpecGateway == GInit /\ [][GNext]_vars

(***************************************************************************)
(* Specification SpecCache: the gateway with one DB credential, serving    *)
(* several requests in a row, so that a request finds the cache filled by  *)
(* an earlier one, for its own text or for a text with the same first 200  *)
(* characters.  The runs are shorter than CACHE_TIMEOUT.                   *)
(***************************************************************************)
CInit ==
    /\ api_keys = [k \in KeyIds |-> NewKey(k = 1, 1, TRUE)]
    /\ fallback_keys = <<>>
    /\ current_index = 0
    /\ fallback_index = 0
    /\ now = 0
    /\ obs = NoObs
    /\ hist = <<>>
    /\ service_enabled = TRUE
    /\ svc = NoSvc
    /\ req = IdleReq
    /\ cache = NoCache
    /\ ai_chats = <<>>
    /\ artifacts = 0
    /\ usage_log = <<>>
    /\ rate_limit = GRateLimit
    /\ documents = {1, 3}
    /\ pending = [n |-> CMaxRequests, ops |-> CacheOps]
    /\ th = NoThreads
    /\ fs = EmptyFS
    /\ ck = NoChunker

SpecCache == CInit /\ [][GNext]_vars

(***************************************************************************)
(* Specification SpecTasks: the gateway called by the background tasks     *)
(* (generate_summary_async, generate_questions_async) and by the           *)
(* administrator's connection test.                                        *)
(***************************************************************************)
\* a key table with one active key and a second key that a quota error has
\* just put in cooldown
CoolingTable ==
    [k \in KeyIds |->
        IF k = 2
        THEN [NewKey(TRUE, 1, TRUE) EXCEPT !.status = "cooling_down",
                                           !.cooldown_until = CooldownTicks,
                                           !.error_count = 1]
        ELSE NewKey(k = 1, 1, TRUE)]

TInit ==
    /\ \/ \E tab \in GKeyTables :
            api_keys = [k \in KeyIds |-> NewKey(tab[k][1], tab[k][2], tab[k][3])]
       \/ api_keys = CoolingTable
    /\ fallback_keys \in GEnvPools
    /\ current_index = 0
    /\ fallback_index = 0
    /\ now = 0
    /\ obs = NoObs
    /\ hist = <<>>
    /\ service_enabled = TRUE
    /\ svc = NoSvc
    /\ req = IdleReq
    /\ cache = NoCache
    /\ ai_chats = <<>>
    /\ artifacts = 0
    /\ usage_log = <<>>
    /\ rate_limit = GRateLimit
    /\ documents = {1}
    /\ pending = [n |-> MaxRequests, ops |-> TaskOps]
    /\ th = NoThreads
    /\ fs = EmptyFS
    /\ ck = NoChunker

SpecTasks == TInit /\ [][GNext]_vars

(***************************************************************************)
(* Specification SpecExhaustion: generate_summary called with three DB     *)
(* credentials and no environment key.                                     *)
(***************************************************************************)
EInit ==
    /\ api_keys = [k \in KeyIds |-> NewKey(TRUE, 1, TRUE)]
    /\ fallback_keys = <<>>
    /\ current_index = 0
    /\ fallback_index = 0
    /\ now = 0
    /\ obs = NoObs
    /\ hist = <<>>
    /\ service_enabled = TRUE
    /\ svc = NoSvc
    /\ req = IdleReq
    /\ cache = NoCache
    /\ ai_chats = <<>>
    /\ artifacts = 0
    /\ usage_log = <<>>
    /\ rate_limit = GRateLimit
    /\ documents = {1}
    /\ pending = [n |-> MaxRequests, ops |-> {"summary"}]
    /\ th = NoThreads
    /\ fs = EmptyFS
    /\ ck = NoChunker

SpecExhaustion == EInit /\ [][GNext]_vars

(***************************************************************************)
(* Specification SpecStore: the artifact store under saves, reads and      *)
(* deletes.  obs keeps the last call and, for the properties, the paths    *)
(* ever written and the contents saved at each path since its last delete. *)
(***************************************************************************)
NoSObs ==
    [op |-> "init", path |-> NonexistentPath, ret |-> None, existed |-> FALSE,
     content |-> <<>>, meta |-> <<>>, n |-> 0, written |-> {},
     saved |-> [p \in StorePaths |-> {}]]

SInit ==
    /\ api_keys = [k \in KeyIds |-> NewKey(FALSE, 1, TRUE)]
    /\ fallback_keys = <<>>
    /\ current_index = 0
    /\ fallback_index = 0
    /\ now = 0
    /\ obs = NoSObs
    /\ hist = <<>>
    /\ service_enabled = TRUE
    /\ svc = NoSvc
    /\ req = IdleReq
    /\ cache = NoCache
    /\ ai_chats = <<>>
    /\ artifacts = 0
    /\ usage_log = <<>>
    /\ rate_limit = DefaultRateLimit
    /\ documents = {}
    /\ pending = NoRequests
    /\ th = NoThreads
    /\ fs = EmptyFS
    /\ ck = NoChunker

\* a caller saves a summary: save_summary(file_id, content, metadata)
SSaveSummary ==
    /\ obs.n < MaxSaves
    /\ \E id \in FileIds, content \in Contents, meta \in Metas :
         LET r == save_summary(fs, id, content, meta, now)
         IN  /\ fs' = r.fs
             /\ obs' = [obs EXCEPT
                   !.op = "save", !.path = r.ret, !.ret = Value(r.ret),
                   !.existed = fs[r.ret].kind = "file",
                   !.content = content, !.meta = meta, !.n = @ + 1,
                   !.written = @ \cup {r.ret},
                   !.saved[r.ret] = @ \cup {<<content, meta>>}]
    /\ UNCHANGED <<kmvars, now, hist, gwvars, lvars>>

\* a caller reads a path: read_file(relative_path)
SReadFile ==
    /\ \E path \in StorePaths :
         obs' = [obs EXCEPT !.op = "read", !.path = path,
                            !.ret = read_file(fs, path),
                            !.existed = fs[path].kind = "file"]
    /\ UNCHANGED <<kmvars, now, hist, gvars, lvars>>

\* a caller deletes a path: delete_file(relative_path)
SDeleteFile ==
    /\ \E path \in StorePaths :
         LET r == delete_file(fs, path)
         IN  /\ fs' = r.fs
             /\ obs' = [obs EXCEPT !.op = "delete", !.path = path,
                                   !.ret = Value(r.ret),
                                   !.existed = fs[path].kind = "file",
                                   !.saved[path] = {}]
    /\ UNCHANGED <<kmvars, now, hist, gwvars, lvars>>

\* the clock datetime.now() of the file names moves to the next second
STick ==
    /\ now < SMaxTime
    /\ now' = now + 1
    /\ obs' = [obs EXCEPT !.op = "tick"]
    /\ UNCHANGED <<kmvars, hist, gvars, lvars>>

SNext == SSaveSummary \/ SReadFile \/ SDeleteFile \/ STick

SpecStore == SInit /\ [][SNext]_vars

(***************************************************************************)
(* Specification SpecChunker: a SmartChunker(chunk_size, overlap) is       *)
(* given a text and chunk_text is called on it.                            *)
(***************************************************************************)
Rep(c, n) == [i \in 1..n |-> c]

\* the paragraphs the texts of the model are made of
Paras ==
    { <<>>, <<"a", "a">>, <<"b", "b", "b">>, <<" ", "c", " ">>,
      <<"d", ".", " ", "e", ".">> }

RECURSIVE JoinParas(_)
JoinParas(ps) ==
    IF ps = <<>> THEN <<>>
    ELSE IF Len(ps) = 1 THEN ps[1]
    ELSE Head(ps) \o ParaSep \o JoinParas(Tail(ps))

ChunkSizes == {4, 6}
Overlaps == {0, 1, 2}

\* test_smart_chunker_splits_large_text: SmartChunker(chunk_size=100,
\* overlap=20) on three 80-character paragraphs
TestChunker ==
    [text |-> Rep("A", 80) \o ParaSep \o Rep("B", 80) \o ParaSep \o Rep("C", 80),
     chunk_size |-> 100, overlap |-> 20]

ChunkerInputs ==
    { [text |-> JoinParas(ps), chunk_size |-> size, overlap |-> ov] :
        ps \in UNION {[1..n -> Paras] : n \in 0..MaxParas},
        size \in ChunkSizes, ov \in Overlaps }
      \cup {TestChunker}

HInit ==
    /\ api_keys = [k \in KeyIds |-> NewKey(FALSE, 1, TRUE)]
    /\ fallback_keys = <<>>
    /\ current_index = 0
    /\ fallback_index = 0
    /\ now = 0
    /\ obs = NoObs
    /\ hist = <<>>
    /\ service_enabled = TRUE
    /\ svc = NoSvc
    /\ req = IdleReq
    /\ cache = NoCache
    /\ ai_chats = <<>>
    /\ artifacts = 0
    /\ usage_log = <<>>
    /\ rate_limit = DefaultRateLimit
    /\ documents = {}
    /\ pending = NoRequests
    /\ th = NoThreads
    /\ fs = EmptyFS
    /\ \E in \in ChunkerInputs :
          ck = [NoChunker EXCEPT !.text = in.text, !.chunk_size = in.chunk_size,
                                 !.overlap = in.overlap]

\* the caller runs chunk_text(text)
HChunkText ==
    /\ ~ck.done
    /\ ck' = [ck EXCEPT
                !.done = TRUE,
                !.trace = chunk_trace(ck.text, ck.chunk_size, ck.overlap),
                !.chunks = chunk_text(ck.text, ck.chunk_size, ck.overlap)]
    /\ UNCHANGED <<kmvars, now, kvars, service_enabled, svc, req, cache,
                   ai_chats, artifacts, documents, pending, fs, th, lvars>>

HNext == HChunkText

SpecChunker == HInit /\ [][HNext]_vars

(***************************************************************************)
(* Specification SpecArtifacts: callers save summaries, question banks and *)
(* chat answers while the clock of the file names advances.                *)
(***************************************************************************)
QuestionSets == { <<"q1">>, <<"q1", "q2">> }
Answers == {"a1", "a2"}

\* what is remembered of the saves: the last one (its kind, subject, user
\* and second), the files before it, and the paths and the
\* <<category, subject, user, second>> of the saves before it
NoAObs ==
    [op |-> "init", path |-> <<>>, key |-> <<>>, n |-> 0,
     prev |-> [p \in ArtifactPaths |-> Absent],
     returned |-> {}, keys |-> {}]

AInit ==
    /\ api_keys = [k \in KeyIds |-> NewKey(FALSE, 1, TRUE)]
    /\ fallback_keys = <<>>
    /\ current_index = 0
    /\ fallback_index = 0
    /\ now = 0
    /\ obs = NoAObs
    /\ hist = <<>>
    /\ service_enabled = TRUE
    /\ svc = NoSvc
    /\ req = IdleReq
    /\ cache = NoCache
    /\ ai_chats = <<>>
    /\ artifacts = 0
    /\ usage_log = <<>>
    /\ rate_limit = DefaultRateLimit
    /\ documents = {}
    /\ pending = NoRequests
    /\ th = NoThreads
    /\ fs = [p \in ArtifactPaths |-> Absent]
    /\ ck = NoChunker

\* the bookkeeping of a save that returned r for the subject of key
Saved(r, key) ==
    /\ fs' = r.fs
    /\ obs' = [obs EXCEPT
          !.op = "save", !.path = r.ret, !.key = key, !.n = @ + 1,
          !.prev = fs,
          !.returned = IF obs.op = "save" THEN @ \cup {obs.path} ELSE @,
          !.keys = IF obs.op = "save" THEN @ \cup {obs.key} ELSE @]
    /\ UNCHANGED <<kmvars, now, hist, gwvars, lvars>>

ASaveSummary ==
    /\ obs.n < AMaxSaves
    /\ \E id \in FileIds, content \in Contents, meta \in Metas :
          Saved(save_summary(fs, id, content, meta, now),
                <<"summary", id, 0, now>>)

ASaveQuestions ==
    /\ obs.n < AMaxSaves
    /\ \E id \in FileIds, questions \in QuestionSets :
          Saved(save_questions(fs, id, questions, now),
                <<"questions", id, 0, now>>)

ASaveChatAnswer ==
    /\ obs.n < AMaxSaves
    /\ \E id \in FileIds, user \in UserIds, answer \in Answers :
          Saved(save_chat_answer(fs, id, user, "q", answer, now),
                <<"chat", id, user, now>>)

\* the clock datetime.now() of the file names moves to the next second
ATick ==
    /\ now < AMaxTime
    /\ now' = now + 1
    /\ obs' = [obs EXCEPT
          !.op = "tick",
          !.returned = IF obs.op = "save" THEN @ \cup {obs.path} ELSE @,
          !.keys = IF obs.op = "save" THEN @ \cup {obs.key} ELSE @]
    /\ UNCHANGED <<kmvars, hist, gvars, lvars>>

ANext == ASaveSummary \/ ASaveQuestions \/ ASaveChatAnswer \/ ATick

SpecArtifacts == AInit /\ [][ANext]_vars

(***************************************************************************)
(* Specification SpecMerge: one generate_summary call on a text of two     *)
(* chunks, with one DB credential.                                         *)
(***************************************************************************)
MInit ==
    /\ api_keys = [k \in KeyIds |-> NewKey(k = 1, 1, TRUE)]
    /\ fallback_keys = <<>>
    /\ current_index = 0
    /\ fallback_index = 0
    /\ now = 0
    /\ obs = NoObs
    /\ hist = <<>>
    /\ service_enabled = TRUE
    /\ svc = NoSvc
    /\ req = IdleReq
    /\ cache = NoCache
    /\ ai_chats = <<>>
    /\ artifacts = 0
    /\ usage_log = <<>>
    /\ rate_limit = GRateLimit
    /\ documents = {2}
    /\ pending = [n |-> 1, ops |-> SummaryOps]
    /\ th = NoThreads
    /\ fs = EmptyFS
    /\ ck = NoChunker

SpecMerge == MInit /\ [][GNext]_vars

(***************************************************************************)
(* Specification SpecLedger: the usage ledger AIUsageLog under requests    *)
(* being logged, quota queries and the passing of time.                    *)
(***************************************************************************)
Users == {1, 2}

\* AI_RATE_LIMIT_PER_HOUR of the deployments the ledger runs in
LRateLimits == {1, 2}

QuotaOf(log, t, limit) ==
    [u \in Users |-> [ok   |-> check_rate_limit(log, u, t, limit),
                      left |-> get_remaining_requests(log, u, t, limit)]]

NoQuota == [u \in Users |-> [ok |-> TRUE, left |-> 0]]
NoLObs == [op |-> "init", user |-> 0, cached |-> FALSE, ok |-> TRUE, left |-> 0,
           pre |-> NoQuota]

LInit ==
    /\ api_keys = [k \in KeyIds |-> NewKey(FALSE, 1, TRUE)]
    /\ fallback_keys = <<>>
    /\ current_index = 0
    /\ fallback_index = 0
    /\ now = 0
    /\ obs = NoLObs
    /\ hist = <<>>
    /\ service_enabled = TRUE
    /\ svc = NoSvc
    /\ req = IdleReq
    /\ cache = NoCache
    /\ ai_chats = <<>>
    /\ artifacts = 0
    /\ usage_log = <<>>
    /\ rate_limit \in LRateLimits
    /\ documents = {}
    /\ pending = NoRequests
    /\ th = NoThreads
    /\ fs = EmptyFS
    /\ ck = NoChunker

\* a handler records a request: AIUsageLog.log_request(user, ...)
LLogRequest ==
    /\ Len(usage_log) < MaxLog
    /\ \E u \in Users, cached \in BOOLEAN, ok \in BOOLEAN :
         /\ usage_log' = log_request(usage_log, u, cached, ok, now)
         /\ obs' = [NoLObs EXCEPT !.op = "log", !.user = u, !.cached = cached,
                                  !.pre = QuotaOf(usage_log, now, rate_limit)]
    /\ UNCHANGED <<kmvars, now, hist, gvars, rate_limit>>

\* a handler asks check_rate_limit(user) and get_remaining_requests(user)
LCheckRateLimit ==
    /\ \E u \in Users :
         obs' = [NoLObs EXCEPT
                   !.op = "check", !.user = u,
                   !.ok = check_rate_limit(usage_log, u, now, rate_limit),
                   !.left = get_remaining_requests(usage_log, u, now, rate_limit)]
    /\ UNCHANGED <<kmvars, now, hist, gvars, lvars>>

\* time passes
LTick ==
    /\ now < LMaxTime
    /\ now' = now + 1
    /\ obs' = [NoLObs EXCEPT !.op = "tick"]
    /\ UNCHANGED <<kmvars, hist, gvars, lvars>>

LNext == LLogRequest \/ LCheckRateLimit \/ LTick

SpecLedger == LInit /\ [][LNext]_vars

(***************************************************************************)
(* Specification SpecSingleton: threads construct HydraKeyManager() and    *)
(* then call get_next_key() on what they got.  A step is one statement of  *)
(* __new__, __init__ or get_next_key; no DB credential is active, so       *)
(* get_next_key serves the keys of the environment.                        *)
(***************************************************************************)
NThreads == {1, 2, 3}

\* GEMINI_API_KEY_1, GEMINI_API_KEY_2 of the environment
NEnvPool == <<101, 102>>

\* the class attributes _instance and _lock, and the attributes of the
\* instance; a lock object is known by the number of the Lock() call that
\* made it, 0 where the attribute is not set
NoInstance ==
    [instance |-> FALSE, cls_lock |-> 0, initialized |-> "unset", key_lock |-> 0,
     locks |-> 0, inits |-> 0, used |-> FALSE, reset |-> FALSE, both |-> FALSE]

\* what a thread holds inside get_next_key: the lock object it entered with,
\* the lock object it waits for, the list it indexes, the key it picked and
\* the index value it loaded
NoLocal == [lock |-> 0, want |-> 0, keys |-> <<>>, key |-> NoKey, idx |-> 0]

NInit ==
    /\ api_keys = [k \in KeyIds |-> NewKey(FALSE, 1, TRUE)]
    /\ fallback_keys = <<>>
    /\ current_index = 0
    /\ fallback_index = 0
    /\ now = 0
    /\ obs = NoObs
    /\ hist = <<>>
    /\ service_enabled = TRUE
    /\ svc = NoSvc
    /\ req = IdleReq
    /\ cache = NoCache
    /\ ai_chats = <<>>
    /\ artifacts = 0
    /\ usage_log = <<>>
    /\ rate_limit = DefaultRateLimit
    /\ documents = {}
    /\ pending = NoRequests
    /\ fs = EmptyFS
    /\ ck = NoChunker
    /\ th = [pc  |-> [t \in NThreads |-> "new"],
             n   |-> [t \in NThreads |-> 0],
             loc |-> [t \in NThreads |-> NoLocal],
             sh  |-> NoInstance]

NFrame == UNCHANGED <<api_keys, now, kvars, service_enabled,
                      svc, req, cache, ai_chats, artifacts, documents, pending,
                      fs, ck, lvars>>

\* __new__: if cls._instance is None (the test outside the lock)
NNewCheck(t) ==
    /\ th.pc[t] = "new"
    /\ th' = [th EXCEPT !.pc[t] = IF th.sh.instance THEN "init" ELSE "lock"]
    /\ UNCHANGED <<current_index, fallback_index, fallback_keys>>
    /\ NFrame

\* __new__: with cls._lock, and the second test
NNewLocked(t) ==
    /\ th.pc[t] = "lock"
    /\ th.sh.cls_lock = 0
    /\ th' = IF th.sh.instance
             THEN [th EXCEPT !.pc[t] = "init"]
             ELSE [th EXCEPT !.pc[t] = "create", !.sh.cls_lock = t]
    /\ UNCHANGED <<current_index, fallback_index, fallback_keys>>
    /\ NFrame

\* __new__: cls._instance = super().__new__(cls)
NNewCreate(t) ==
    /\ th.pc[t] = "create"
    /\ th' = [th EXCEPT !.pc[t] = "flag", !.sh.instance = TRUE]
    /\ UNCHANGED <<current_index, fallback_index, fallback_keys>>
    /\ NFrame

\* __new__: cls._instance._initialized = False, and the lock is released
NNewFlag(t) ==
    /\ th.pc[t] = "flag"
    /\ th' = [th EXCEPT !.pc[t] = "init", !.sh.initialized = "no",
                        !.sh.cls_lock = 0]
    /\ UNCHANGED <<current_index, fallback_index, fallback_keys>>
    /\ NFrame

\* __init__: if self._initialized: return; the attribute may not exist yet
NInitCheck(t) ==
    /\ th.pc[t] = "init"
    /\ th' = IF th.sh.initialized = "unset"
             THEN [th EXCEPT !.pc[t] = "raised"]
             ELSE IF th.sh.initialized = "yes"
             THEN [th EXCEPT !.pc[t] = "use"]
             ELSE [th EXCEPT !.pc[t] = "index", !.sh.inits = @ + 1]
    /\ UNCHANGED <<current_index, fallback_index, fallback_keys>>
    /\ NFrame

\* __init__: self._current_index = 0
NInitIndex(t) ==
    /\ th.pc[t] = "index"
    /\ current_index' = 0
    /\ th' = [th EXCEPT !.pc[t] = "keylock",
                        !.sh.reset = @ \/ th.sh.used]
    /\ UNCHANGED <<fallback_index, fallback_keys>>
    /\ NFrame

\* __init__: self._key_lock = threading.Lock()
NInitLock(t) ==
    /\ th.pc[t] = "keylock"
    /\ th' = [th EXCEPT !.pc[t] = "fbkeys",
                        !.sh.key_lock = th.sh.locks + 1,
                        !.sh.locks = @ + 1,
                        !.sh.reset = @ \/ th.sh.used]
    /\ UNCHANGED <<current_index, fallback_index, fallback_keys>>
    /\ NFrame

\* __init__: self._fallback_keys = []
NInitKeys(t) ==
    /\ th.pc[t] = "fbkeys"
    /\ fallback_keys' = <<>>
    /\ th' = [th EXCEPT !.pc[t] = "fbindex",
                        !.sh.reset = @ \/ th.sh.used]
    /\ UNCHANGED <<current_index, fallback_index>>
    /\ NFrame

\* __init__: self._fallback_index = 0
NInitFallbackIndex(t) ==
    /\ th.pc[t] = "fbindex"
    /\ fallback_index' = 0
    /\ th' = [th EXCEPT !.pc[t] = "load",
                        !.sh.reset = @ \/ th.sh.used]
    /\ UNCHANGED <<current_index, fallback_keys>>
    /\ NFrame

\* __init__: self._load_fallback_keys()
NInitLoad(t) ==
    /\ th.pc[t] = "load"
    /\ fallback_keys' = NEnvPool
    /\ th' = [th EXCEPT !.pc[t] = "setinit"]
    /\ UNCHANGED <<current_index, fallback_index>>
    /\ NFrame

\* __init__: self._initialized = True
NInitDone(t) ==
    /\ th.pc[t] = "setinit"
    /\ th' = [th EXCEPT !.pc[t] = "use", !.sh.initialized = "yes"]
    /\ UNCHANGED <<current_index, fallback_index, fallback_keys>>
    /\ NFrame

\* get_next_key: with self._key_lock -- the attribute is loaded when the
\* thread arrives, and the thread then waits for that lock object
NUseArrive(t) ==
    /\ th.pc[t] = "use"
    /\ th' = [th EXCEPT !.pc[t] = "enter", !.loc[t].want = th.sh.key_lock]
    /\ UNCHANGED <<current_index, fallback_index, fallback_keys>>
    /\ NFrame

\* get_next_key: the lock object the thread loaded is acquired
NUse(t) ==
    /\ th.pc[t] = "enter"
    /\ \A u \in NThreads : th.loc[u].lock # th.loc[t].want
    /\ th' = [th EXCEPT
                !.pc[t] = "test",
                !.loc[t].lock = th.loc[t].want,
                !.sh.used = TRUE,
                !.sh.both = @ \/ \E u \in NThreads \ {t} : th.loc[u].lock # 0]
    /\ UNCHANGED <<current_index, fallback_index, fallback_keys>>
    /\ NFrame

\* get_next_key: no DB key is available; if self._fallback_keys, else
\* raise GeminiConfigurationError
NUseTest(t) ==
    /\ th.pc[t] = "test"
    /\ th' = IF fallback_keys # <<>>
             THEN [th EXCEPT !.pc[t] = "pick"]
             ELSE [th EXCEPT !.pc[t] = "no_keys", !.loc[t].lock = 0]
    /\ UNCHANGED <<current_index, fallback_index, fallback_keys>>
    /\ NFrame

\* get_next_key: key = self._fallback_keys[...], the list that is indexed
NUsePick(t) ==
    /\ th.pc[t] = "pick"
    /\ th' = [th EXCEPT !.pc[t] = "pick_index", !.loc[t].keys = fallback_keys]
    /\ UNCHANGED <<current_index, fallback_index, fallback_keys>>
    /\ NFrame

\* get_next_key: ... self._fallback_index % ..., the index
NUsePickIndex(t) ==
    /\ th.pc[t] = "pick_index"
    /\ th' = [th EXCEPT !.pc[t] = "pick_len", !.loc[t].idx = fallback_index]
    /\ UNCHANGED <<current_index, fallback_index, fallback_keys>>
    /\ NFrame

\* get_next_key: ... % len(self._fallback_keys), the modulo and the subscript
NUsePickLen(t) ==
    /\ th.pc[t] = "pick_len"
    /\ th' = IF fallback_keys = <<>>
             THEN [th EXCEPT !.pc[t] = "zero_division", !.loc[t].lock = 0]
             ELSE IF th.loc[t].idx % Len(fallback_keys) >= Len(th.loc[t].keys)
             THEN [th EXCEPT !.pc[t] = "index_error", !.loc[t].lock = 0]
             ELSE [th EXCEPT
                     !.pc[t] = "load_index",
                     !.loc[t].key =
                         th.loc[t].keys[(th.loc[t].idx % Len(fallback_keys)) + 1]]
    /\ UNCHANGED <<current_index, fallback_index, fallback_keys>>
    /\ NFrame

\* get_next_key: self._fallback_index += 1, the load
NUseLoad(t) ==
    /\ th.pc[t] = "load_index"
    /\ th' = [th EXCEPT !.pc[t] = "store_index", !.loc[t].idx = fallback_index]
    /\ UNCHANGED <<current_index, fallback_index, fallback_keys>>
    /\ NFrame

\* get_next_key: self._fallback_index += 1, the store; return None, key
NUseStore(t) ==
    /\ th.pc[t] = "store_index"
    /\ fallback_index' = th.loc[t].idx + 1
    /\ th' = [th EXCEPT !.pc[t] = "done", !.loc[t].lock = 0]
    /\ UNCHANGED <<current_index, fallback_keys>>
    /\ NFrame

NNext ==
    \E t \in NThreads :
        \/ NNewCheck(t) \/ NNewLocked(t) \/ NNewCreate(t) \/ NNewFlag(t)
        \/ NInitCheck(t) \/ NInitIndex(t) \/ NInitLock(t) \/ NInitKeys(t)
        \/ NInitFallbackIndex(t) \/ NInitLoad(t) \/ NInitDone(t)
        \/ NUseArrive(t) \/ NUse(t) \/ NUseTest(t)
        \/ NUsePick(t) \/ NUsePickIndex(t) \/ NUsePickLen(t)
        \/ NUseLoad(t) \/ NUseStore(t)

SpecSingleton == NInit /\ [][NNext]_vars

(***************************************************************************)
(* Specification SpecPool: threads run gateway calls against one key pool. *)
(* A step is one lock acquisition, one locked body, the provider call, or  *)
(* one mark_success / mark_error of the credential object the thread got   *)
(* from get_next_key().                                                    *)
(***************************************************************************)
PThreads == {1, 2}
PMaxTime == 1
ProviderOutcomes == {"ok", "quota", "invalid_key", "error"}

\* what a call holds: its credential (self._current_key_obj), the provider's
\* last answer and max_attempts
NoHeld == [id |-> NoKey, obj |-> NewKey(FALSE, 1, FALSE), outcome |-> "none",
           max |-> 0]

\* self._key_lock (0: free), and what has been seen of the writes so far
NoPool == [key_lock |-> 0, unlocked |-> FALSE, stale |-> FALSE,
           index_unlocked |-> FALSE]

PInit ==
    /\ api_keys = [k \in KeyIds |-> NewKey(k # 3, 1, TRUE)]
    /\ fallback_keys = <<>>
    /\ current_index = 0
    /\ fallback_index = 0
    /\ now = 0
    /\ obs = NoObs
    /\ hist = <<>>
    /\ service_enabled = TRUE
    /\ svc = NoSvc
    /\ req = IdleReq
    /\ cache = NoCache
    /\ ai_chats = <<>>
    /\ artifacts = 0
    /\ usage_log = <<>>
    /\ rate_limit = DefaultRateLimit
    /\ documents = {}
    /\ pending = NoRequests
    /\ fs = EmptyFS
    /\ ck = NoChunker
    /\ th = [pc  |-> [t \in PThreads |-> "init"],
             n   |-> [t \in PThreads |-> 0],
             loc |-> [t \in PThreads |-> NoHeld],
             sh  |-> NoPool]

PFrame == UNCHANGED <<fallback_keys, kvars, service_enabled, svc, req, cache,
                      ai_chats, artifacts, documents, pending, fs, ck, lvars>>

\* _initialize_client: if not self._key_manager.has_keys: return
PHasKeys(t) ==
    /\ th.pc[t] = "init"
    /\ th' = [th EXCEPT !.pc[t] = IF total_keys(api_keys, fallback_keys) > 0
                                  THEN "acquire" ELSE "enter"]
    /\ UNCHANGED <<api_keys, current_index, fallback_index, now>>
    /\ PFrame

\* with self._key_lock: (get_next_key and rotate_after_error)
PLock(t) ==
    /\ th.pc[t] \in {"acquire", "rotate"}
    /\ th.sh.key_lock = 0
    /\ th' = [th EXCEPT !.pc[t] = IF @ = "acquire" THEN "select" ELSE "advance",
                        !.sh.key_lock = t]
    /\ UNCHANGED <<api_keys, current_index, fallback_index, now>>
    /\ PFrame

\* the locked body of get_next_key(): the thread leaves with its own
\* credential object, loaded from the table as it is now.  When no
\* credential is left, _initialize_client leaves the service without a
\* client, and _reinitialize_with_next_key keeps the client and the
\* credential object of the failed attempt; the loop of _generate_content
\* then goes on while attempt < max(max_attempts, 1)
PSelect(t) ==
    /\ th.pc[t] = "select"
    /\ LET r == get_next_key(api_keys, fallback_keys, current_index,
                             fallback_index, now)
       IN  /\ current_index' = r.ci
           /\ fallback_index' = r.fi
           /\ th' = [th EXCEPT
                       !.pc[t] = IF th.n[t] = 0 THEN "enter"
                                 ELSE IF th.n[t] < Max2(th.loc[t].max, 1)
                                 THEN "call" ELSE "done",
                       !.loc[t] = IF r.kind = "db"
                                  THEN [@ EXCEPT !.id = r.id,
                                                 !.obj = api_keys[r.id]]
                                  ELSE @,
                       !.sh.key_lock = 0,
                       !.sh.index_unlocked = @ \/ th.sh.key_lock # t]
    /\ UNCHANGED <<api_keys, now>>
    /\ PFrame

\* _generate_content: if not self.is_available: raise; then the test of
\* max_attempts = ... if self._key_manager.total_keys > 0 else MAX_RETRIES
PEnter(t) ==
    /\ th.pc[t] = "enter"
    /\ th' = IF th.loc[t].id = NoKey
             THEN [th EXCEPT !.pc[t] = "done"]
             ELSE IF total_keys(api_keys, fallback_keys) > 0
             THEN [th EXCEPT !.pc[t] = "bound"]
             ELSE [th EXCEPT !.pc[t] = "call", !.loc[t].max = MAX_RETRIES]
    /\ UNCHANGED <<api_keys, current_index, fallback_index, now>>
    /\ PFrame

\* _generate_content: max_attempts = min(self._key_manager.total_keys,
\* MAX_RETRIES), the second read of total_keys
PBound(t) ==
    /\ th.pc[t] = "bound"
    /\ th' = [th EXCEPT
                !.pc[t] = "call",
                !.loc[t].max = Min2(total_keys(api_keys, fallback_keys),
                                    MAX_RETRIES)]
    /\ UNCHANGED <<api_keys, current_index, fallback_index, now>>
    /\ PFrame

\* one attempt of _generate_content: client.models.generate_content(...),
\* outside the lock.  A quota answer and an invalid-key answer rotate on
\* every attempt; any other error rotates while attempt < max_attempts - 1
\* and is raised on the last attempt
PCall(t) ==
    /\ th.pc[t] = "call"
    /\ \E o \in ProviderOutcomes :
          th' = [th EXCEPT !.pc[t] = IF o = "ok" THEN "success"
                                     ELSE IF \/ o \in {"quota", "invalid_key"}
                                             \/ th.n[t] < th.loc[t].max - 1
                                     THEN "failed" ELSE "done",
                           !.n[t] = @ + 1,
                           !.loc[t].outcome = o]
    /\ UNCHANGED <<api_keys, current_index, fallback_index, now>>
    /\ PFrame

\* self._current_key_obj.mark_success(latency_ms): the object is saved as the
\* thread holds it
PMarkSuccess(t) ==
    /\ th.pc[t] = "success"
    /\ LET h == th.loc[t]
       IN  /\ api_keys' = [api_keys EXCEPT ![h.id] = mark_success(h.obj, now)]
           /\ th' = [th EXCEPT
                       !.pc[t] = "done",
                       !.loc[t].obj = mark_success(h.obj, now),
                       !.sh.unlocked = @ \/ th.sh.key_lock # t,
                       !.sh.stale = @ \/ api_keys[h.id] # h.obj]
    /\ UNCHANGED <<current_index, fallback_index, now>>
    /\ PFrame

\* rotate_after_error: failed_key_obj.mark_error(error_msg, is_rate_limit),
\* the statement before the with block
PMarkError(t) ==
    /\ th.pc[t] = "failed"
    /\ LET h == th.loc[t]
       IN  /\ api_keys' = [api_keys EXCEPT
                             ![h.id] = mark_error(h.obj, h.outcome = "quota", now)]
           /\ th' = [th EXCEPT
                       !.pc[t] = "rotate",
                       !.loc[t].obj = mark_error(h.obj, h.outcome = "quota", now),
                       !.sh.unlocked = @ \/ th.sh.key_lock # t,
                       !.sh.stale = @ \/ api_keys[h.id] # h.obj]
    /\ UNCHANGED <<current_index, fallback_index, now>>
    /\ PFrame

\* rotate_after_error: the locked body; _reinitialize_with_next_key then
\* calls get_next_key()
PAdvance(t) ==
    /\ th.pc[t] = "advance"
    /\ current_index' = current_index + 1
    /\ th' = [th EXCEPT
                !.pc[t] = "acquire",
                !.sh.key_lock = 0,
                !.sh.index_unlocked = @ \/ th.sh.key_lock # t]
    /\ UNCHANGED <<api_keys, fallback_index, now>>
    /\ PFrame

PTick ==
    /\ now < PMaxTime
    /\ now' = now + 1
    /\ UNCHANGED <<api_keys, current_index, fallback_index, th>>
    /\ PFrame

PNext ==
    \/ \E t \in PThreads :
          \/ PHasKeys(t) \/ PLock(t) \/ PSelect(t)
          \/ PEnter(t) \/ PBound(t) \/ PCall(t)
          \/ PMarkSuccess(t) \/ PMarkError(t) \/ PAdvance(t)
    \/ PTick

SpecPool == PInit /\ [][PNext]_vars

(***************************************************************************)
(* Specification SpecQuota: two threads serve chat requests of one user    *)
(* (AIChatView.post); each checks the quota, generates, and records.       *)
(***************************************************************************)
QThreads == {1, 2}

QInit ==
    /\ api_keys = [k \in KeyIds |-> NewKey(FALSE, 1, TRUE)]
    /\ fallback_keys = <<>>
    /\ current_index = 0
    /\ fallback_index = 0
    /\ now = 0
    /\ obs = NoObs
    /\ hist = <<>>
    /\ service_enabled = TRUE
    /\ svc = NoSvc
    /\ req = IdleReq
    /\ cache = NoCache
    /\ ai_chats = <<>>
    /\ artifacts = 0
    /\ usage_log = <<>>
    /\ rate_limit \in LRateLimits
    /\ documents = {}
    /\ pending = NoRequests
    /\ fs = EmptyFS
    /\ ck = NoChunker
    /\ th = [NoThreads EXCEPT !.pc = [t \in QThreads |-> "idle"],
                              !.n = [t \in QThreads |-> 0]]

QFrame == UNCHANGED <<kmvars, now, kvars, service_enabled, svc, req, cache,
                      artifacts, documents, pending, fs, ck, rate_limit>>

\* views.py:326-329: GeminiService() and service.ask_document(text, question)
\* of a request that makes no provider call
QAnswer ==
    LET s == initialize_client(KM, now).svc
    IN  ask_document(IF ~service_enabled THEN Raise("ServiceDisabled")
                     ELSE IF s.client.kind = "none" THEN Raise("Configuration")
                     ELSE Value("text"))

\* views.py:299: if not AIUsageLog.check_rate_limit(request.user)
QCheck(t) ==
    /\ th.pc[t] = "idle"
    /\ th.n[t] < QMaxPosts
    /\ th' = [th EXCEPT
          !.pc[t] = IF check_rate_limit(usage_log, ChatUser, now, rate_limit)
                    THEN "passed" ELSE "limited",
          !.n[t] = @ + 1]
    /\ UNCHANGED <<usage_log, ai_chats>>
    /\ QFrame

\* views.py:327-335: the answer is generated and AIChat.objects.create
\* stores it
QStore(t) ==
    /\ th.pc[t] = "passed"
    /\ ai_chats' = Append(ai_chats, QAnswer.val)
    /\ th' = [th EXCEPT !.pc[t] = "stored"]
    /\ UNCHANGED usage_log
    /\ QFrame

\* views.py:337-340: AIUsageLog.log_request writes the usage record, or
\* raises and the request ends in the except branch
QLog(t) ==
    /\ th.pc[t] = "stored"
    /\ \E w \in LedgerWrites :
          /\ usage_log' = IF w = "ok"
                          THEN log_request(usage_log, ChatUser, FALSE, TRUE, now)
                          ELSE usage_log
          /\ th' = [th EXCEPT !.pc[t] = IF w = "ok" THEN "done" ELSE "failed"]
    /\ UNCHANGED ai_chats
    /\ QFrame

\* views.py:331-335, 354-362: AIChat.objects.create raised, nothing is
\* recorded
QError(t) ==
    /\ th.pc[t] = "passed"
    /\ th' = [th EXCEPT !.pc[t] = "failed"]
    /\ UNCHANGED <<usage_log, ai_chats>>
    /\ QFrame

\* views.py:368-375: AIChatClearView.post deletes the user's chat rows of
\* the file
QClear ==
    /\ ai_chats' = <<>>
    /\ UNCHANGED <<usage_log, th>>
    /\ QFrame

\* the response is sent and the thread takes the next request
QRespond(t) ==
    /\ th.pc[t] \in {"done", "failed", "limited"}
    /\ th' = [th EXCEPT !.pc[t] = "idle"]
    /\ UNCHANGED <<usage_log, ai_chats>>
    /\ QFrame

QTick ==
    /\ now < QMaxTime
    /\ now' = now + 1
    /\ UNCHANGED <<kmvars, kvars, gvars, lvars>>

QNext ==
    \/ \E t \in QThreads : QCheck(t)
    \/ \E t \in QThreads : QStore(t)
    \/ \E t \in QThreads : QLog(t)
    \/ \E t \in QThreads : QError(t)
    \/ \E t \in QThreads : QRespond(t)
    \/ QClear
    \/ QTick

SpecQuota == QInit /\ [][QNext]_vars

(***************************************************************************)
(* Properties of the key manager (checked under SpecKeys).                 *)
(* The sets below restate the pool and eligibility from the rows, without  *)
(* the manager's own list operators.                                       *)
(***************************************************************************)
PoolSet ==
    {k \in KeyIds : api_keys[k].is_active
                    /\ api_keys[k].status \notin {"disabled", "error"}}

EligibleSet ==
    {k \in KeyIds :
        /\ api_keys[k].is_active
        /\ \/ api_keys[k].status = "active"
           \/ /\ api_keys[k].status = "cooling_down"
              /\ now >= api_keys[k].cooldown_until
        /\ \/ api_keys[k].rpm_window # now
           \/ api_keys[k].rpm_count < RpmLimit}

RankIn(S, k) == Cardinality({j \in S : Before(api_keys, j, k)})

ReturnedDb == obs.op = "get" /\ obs.ret.kind = "db"

\* the rotation over the pool seen in hist: any N consecutive calls return
\* pairwise distinct credentials, each the pool successor of the one before,
\* and the call N after a call returns the same credential as that call
RotationInPoolOrder ==
    LET N == Cardinality(PoolSet)
    IN  \A i \in 1..Len(hist) : \A j \in 1..Len(hist) :
            i < j =>
              /\ (j - i < N => hist[i] # hist[j])
              /\ (j - i = N => hist[i] = hist[j])
              /\ (j = i + 1 =>
                    /\ hist[i] \in PoolSet /\ hist[j] \in PoolSet
                    /\ RankIn(PoolSet, hist[j]) = (RankIn(PoolSet, hist[i]) + 1) % N)

\* every credential of the pool has a secret that get_key() decrypts
AllDecryptable == \A k \in PoolSet : get_key(api_keys[k])

\* C1 (as stated): in a run of consecutive get_next_key() calls with the
\* whole pool of N credentials eligible at each call and no error report in
\* between, any N consecutive calls return pairwise distinct credentials in
\* pool order, and the call N after a call returns the same credential as
\* that call.
C1_RoundRobinOrder ==
    /\ \A i \in 1..Len(hist) : hist[i] \in PoolSet
    /\ RotationInPoolOrder

\* C1 (amended): the same, for a pool whose credentials are all decryptable;
\* a call that selects a credential whose secret does not decrypt returns a
\* fallback key or raises instead, and the rotation skips that position.
C1_RoundRobinOverDecryptable ==
    AllDecryptable => RotationInPoolOrder

\* C1 witness: N = 3 decryptable credentials and N + 1 consecutive calls of
\* such a run have been made.
C1_Witness ==
    /\ Cardinality(PoolSet) = 3
    /\ AllDecryptable
    /\ Len(hist) = 4
    /\ hist[4] = hist[1]

\* C2 as stated: a returned DB credential has the smallest priority value
\* among the credentials eligible at the call.
C2_SmallestPriorityReturned ==
    ReturnedDb =>
        \A j \in EligibleSet :
            api_keys[obs.ret.id].priority <= api_keys[j].priority

\* C2 amended: get_next_key() rotates over ALL eligible credentials, ordered
\* by ascending priority then id: the credential returned is the one with
\* (index mod number eligible) eligible credentials before it in that order.
C2_RotationOverEligible ==
    ReturnedDb =>
        /\ obs.ret.id \in EligibleSet
        /\ RankIn(EligibleSet, obs.ret.id)
             = obs.pre_ci % Cardinality(EligibleSet)

\* C2 witness: a credential is returned while one of smaller priority value
\* is eligible.
C2_Witness ==
    /\ ReturnedDb
    /\ \E j \in EligibleSet :
          api_keys[j].priority < api_keys[obs.ret.id].priority

\* the credential the rotation points at, before the call
SelectedBefore ==
    IF EligibleSet = {} THEN NoKey
    ELSE CHOOSE k \in EligibleSet :
            RankIn(EligibleSet, k) = obs.pre_ci % Cardinality(EligibleSet)

\* C3 as stated: fallback key exactly when no DB credential is eligible and
\* the fallback pool is non-empty; GeminiConfigurationError exactly when none
\* is eligible and the fallback pool is empty, and then the indices are
\* unchanged.
C3_FallbackIffNoneEligible ==
    obs.op = "get" =>
        /\ obs.ret.kind = "env" <=> (EligibleSet = {} /\ fallback_keys # <<>>)
        /\ obs.ret.kind = "raise" <=> (EligibleSet = {} /\ fallback_keys = <<>>)
        /\ obs.ret.kind = "raise" =>
              /\ current_index = obs.pre_ci
              /\ fallback_index = obs.pre_fi

\* C3 amended: the fallback pool is used, or the error raised, exactly when no
\* DB credential is eligible or the selected credential's secret does not
\* decrypt; in the failing case the fallback index is unchanged and the
\* round-robin index is unchanged when none was eligible and advanced by one
\* when a credential was selected.
C3_FallbackIffNoUsableKey ==
    obs.op = "get" =>
        LET nodb == \/ EligibleSet = {}
                    \/ ~api_keys[SelectedBefore].has_secret
        IN  /\ obs.ret.kind = "env" <=> (nodb /\ fallback_keys # <<>>)
            /\ obs.ret.kind = "raise" <=> (nodb /\ fallback_keys = <<>>)
            /\ obs.ret.kind = "db" <=> ~nodb
            /\ obs.ret.kind = "raise" =>
                  /\ fallback_index = obs.pre_fi
                  /\ current_index = obs.pre_ci
                        + (IF EligibleSet = {} THEN 0 ELSE 1)

\* C3 witness: the error is raised after an eligible credential failed to
\* decrypt.
C3_Witness ==
    /\ obs.op = "get"
    /\ obs.ret.kind = "raise"
    /\ EligibleSet # {}
    /\ current_index = obs.pre_ci + 1

\* C4: get_next_key() never returns a credential whose cooldown is running,
\* and a credential whose cooldown expiry has passed counts as eligible
\* again: a call that selects it returns it.
C4_CooldownEligibility ==
    obs.op = "get" =>
        /\ obs.ret.kind = "db" =>
              ~ (/\ api_keys[obs.ret.id].status = "cooling_down"
                 /\ now < api_keys[obs.ret.id].cooldown_until)
        /\ (EligibleSet # {} /\ api_keys[SelectedBefore].has_secret) =>
              (obs.ret.kind = "db" /\ obs.ret.id = SelectedBefore)

\* C4 witness: a credential put into cooldown is returned after its expiry.
C4_Witness ==
    /\ ReturnedDb
    /\ api_keys[obs.ret.id].status = "cooling_down"
    /\ api_keys[obs.ret.id].cooldown_until > 0
    /\ now >= api_keys[obs.ret.id].cooldown_until

(***************************************************************************)
(* Properties of the gateway (SpecGateway)                                 *)
(***************************************************************************)
Done == req.pc = "done"

AllCoolingDown == \A k \in KeyIds : api_keys[k].status = "cooling_down"

\* the three credentials were all configured, eligible and decryptable when
\* the request began
StartedWithThreeKeys ==
    \A k \in KeyIds :
        /\ req.pre.keys[k].is_active
        /\ req.pre.keys[k].status \in {"active", "cooling_down"}
        /\ req.pre.keys[k].status = "cooling_down"
              => req.pre.now >= req.pre.keys[k].cooldown_until
        /\ \/ req.pre.keys[k].rpm_window # req.pre.now
           \/ req.pre.keys[k].rpm_count < RpmLimit
        /\ req.pre.keys[k].has_secret

\* a finished generate_summary call on single-chunk text, three DB
\* credentials and no fallback key, every provider call answered by a quota
\* error (message with "quota", "429" or "rate")
QuotaExhaustionScenario ==
    /\ Done
    /\ req.op = "summary"
    /\ NumChunks(req.text) = 1
    /\ fallback_keys = <<>>
    /\ StartedWithThreeKeys
    /\ req.calls > 0
    /\ req.allquota

\* C5 (as stated): in the quota exhaustion scenario generate_summary raises
\* GeminiRateLimitError to its caller and all 3 credentials end cooling_down.
C5_SummaryRaisesRateLimit ==
    QuotaExhaustionScenario =>
        /\ req.out = Raise("RateLimit")
        /\ AllCoolingDown

\* C5 (amended): in the quota exhaustion scenario the provider is called 3
\* times, _generate_content ends with GeminiRateLimitError, generate_summary
\* catches it and returns the extractive fallback summary, and all 3
\* credentials end cooling_down unless a cooldown expired during the call.
C5_SummaryFallsBackOnRateLimit ==
    QuotaExhaustionScenario =>
        /\ req.calls = 3
        /\ req.gen = Raise("RateLimit")
        /\ req.out = Value("fallback")
        /\ ~req.expired => AllCoolingDown

C5_Witness ==
    /\ QuotaExhaustionScenario
    /\ ~req.expired
    /\ AllCoolingDown
    /\ req.out = Value("fallback")

\* a finished request that entered _generate_content while the
\* service-enabled flag was false from its start to its end
DisabledOperation == Done /\ req.off /\ req.ctx # "none"

\* C6: while the service-enabled flag is false each gateway operation raises
\* GeminiServiceDisabledError to its caller, makes no provider call and
\* returns no value.
C6_DisabledRaises ==
    DisabledOperation =>
        /\ req.out = Raise("ServiceDisabled")
        /\ req.calls = 0

\* C7: while the service-enabled flag is false a request handled end to end
\* appends no AIUsageLog record and leaves the round-robin indices and every
\* credential's status and error counter as they were.
C7_DisabledFrame ==
    DisabledOperation =>
        /\ Len(usage_log) = req.pre.nlog
        /\ current_index = req.pre.ci
        /\ fallback_index = req.pre.fi
        /\ \A k \in KeyIds :
              /\ api_keys[k].status = req.pre.keys[k].status
              /\ api_keys[k].error_count = req.pre.keys[k].error_count

\* C8: generate_summary returns a string whatever the provider answers and
\* never propagates an exception; when every generation fails the string is
\* the extractive fallback.
C8_SummaryAlwaysReturns ==
    (Done /\ req.op = "summary") =>
        /\ req.out.kind = "value"
        /\ (req.calls > 0 /\ req.allfail) => req.out = Value("fallback")

\* C9: when every provider attempt of a question generation or a document
\* question fails, no question record is returned, the envelope is
\* success=false, no artifact is written, no AIChat answer is stored and no
\* usage record is logged.
C9_NoFabricatedContent ==
    (Done /\ req.op \in {"questions", "chat"} /\ req.calls > 0 /\ req.allfail) =>
        /\ req.out \notin {Value("questions"), Value("fallback_questions"),
                           Value("answer")}
        /\ req.resp = "error"
        /\ artifacts = req.pre.nart
        /\ Len(ai_chats) = req.pre.nchat
        /\ Len(usage_log) = req.pre.nlog

(***************************************************************************)
(* Properties of the usage ledger (SpecLedger)                             *)
(***************************************************************************)
\* the user's records that count against the quota at time t
Counted(u, t) ==
    {i \in DOMAIN usage_log : /\ usage_log[i].user = u
                              /\ ~usage_log[i].was_cached
                              /\ t - usage_log[i].time <= HourTicks}

\* C10: check_rate_limit(user) is false exactly when the user's non-cached
\* records of the trailing hour number at least the limit,
\* get_remaining_requests(user) is max(0, limit - that number), and logging a
\* cached record or another user's record changes neither.
C10_QuotaPredicate ==
    /\ obs.op = "check" =>
          LET n == Cardinality(Counted(obs.user, now))
          IN  /\ obs.ok = FALSE <=> n >= rate_limit
              /\ obs.left = IF rate_limit - n > 0 THEN rate_limit - n ELSE 0
    /\ obs.op = "log" =>
          \A u \in Users :
              (obs.cached \/ obs.user # u) =>
                  QuotaOf(usage_log, now, rate_limit)[u] = obs.pre[u]

\* the quota is refused at the edge of the window, with a cached record and
\* another user's record on the log
C10_Witness ==
    /\ obs.op = "check"
    /\ obs.ok = FALSE
    /\ \E i \in DOMAIN usage_log :
          /\ usage_log[i].user = obs.user
          /\ ~usage_log[i].was_cached
          /\ now - usage_log[i].time = HourTicks

(***************************************************************************)
(* Properties of the cache (SpecCache)                                     *)
(***************************************************************************)
\* the cache key of the request
ReqKey == cache_key(req.op, req.text, req.total)

\* a finished generate_summary or generate_questions call that was answered
\* from the cache
CacheHit ==
    /\ Done
    /\ req.op \in CachedOps
    /\ req.ctx = "none"
    /\ req.pre.cache[ReqKey] # "none"

\* a finished generate_summary or generate_questions call that ran the
\* wrapped function
CacheMiss == Done /\ req.op \in CachedOps /\ ~CacheHit

\* the key manager after GeminiService() was constructed at the start of the
\* request
AfterConstruction ==
    initialize_client([keys |-> req.pre.keys, fb |-> fallback_keys,
                       ci |-> req.pre.ci, fi |-> req.pre.fi], req.pre.now).km

\* C11: the result a generate_summary or generate_questions call returns is
\* the one the cache then holds for its text and arguments, and a later call
\* with that text and those arguments returns it with no
\* provider call, no key acquisition or rotation by the call (the indices
\* are those GeminiService() left) and no change to any credential.
C11_CacheHitBypass ==
    /\ (CacheMiss /\ req.out.kind = "value") => cache[ReqKey] = req.out.val
    /\ CacheHit =>
          /\ req.out = Value(cache[ReqKey])
          /\ req.out = Value(req.pre.cache[ReqKey])
          /\ req.calls = 0
          /\ api_keys = req.pre.keys
          /\ current_index = AfterConstruction.ci
          /\ fallback_index = AfterConstruction.fi

C11_Witness ==
    /\ CacheHit
    /\ req.out = Value("fallback")
    /\ req.served = 1

(***************************************************************************)
(* Properties of the artifact store (SpecStore)                            *)
(***************************************************************************)
Contains(text, part) ==
    \E i \in 0..(Len(text) - Len(part)) : SubSeq(text, i + 1, i + Len(part)) = part

\* C12: reading the path a save_summary returned, with no delete of it in
\* between, returns the metadata header (when metadata was given) followed by
\* the saved content unchanged; the path is relative to the storage root and
\* lies under ai_generated/<category>/.
C12_ArtifactRoundTrip ==
    /\ obs.op = "save" =>
          /\ Len(obs.path) = 3
          /\ obs.path[1] = AI_OUTPUT_DIR
          /\ obs.path[2] = "summary"
    /\ obs.op = "read" =>
          \A cm \in obs.saved[obs.path] :
              /\ obs.ret.kind = "value"
              /\ Contains(obs.ret.val, cm[1])
              /\ obs.ret.val = Header(cm[2]) \o cm[1]

\* C13: delete_file returns true exactly when a file existed at the path and
\* this call removed it, and false otherwise; a never-written path gives
\* false, so does a second delete of the same path, and a read after a
\* successful delete gives None.
C13_DeleteResult ==
    obs.op = "delete" =>
        /\ obs.ret.val = obs.existed
        /\ fs[obs.path].kind # "file"
        /\ obs.path \notin obs.written => obs.ret.val = FALSE
        /\ delete_file(fs, obs.path).ret = FALSE
        /\ delete_file(fs, obs.path).fs = fs
        /\ obs.ret.val = TRUE => read_file(fs, obs.path) = None

\* a path that was written and deleted is deleted once more
C13_Witness ==
    /\ obs.op = "delete"
    /\ obs.ret.val = FALSE
    /\ obs.path \in obs.written

(***************************************************************************)
(* SmartChunker properties (SpecChunker)                                   *)
(***************************************************************************)
\* the last n characters of s, all of s when it has no more than n
LastN(s, n) ==
    IF n >= Len(s) THEN s ELSE SubSeq(s, Len(s) - n + 1, Len(s))

EndsWith(s, suffix) == LastN(s, Len(suffix)) = suffix /\ Len(suffix) <= Len(s)

\* the stripped non-blank paragraphs of a text, in order
NonBlankParas(text) ==
    SelectSeq([i \in 1..Len(Split(text, ParaSep)) |->
                  Strip(Split(text, ParaSep)[i])],
              LAMBDA p : p # <<>>)

\* the characters of a text that are not white space
Letters(s) == SelectSeq(s, LAMBDA c : ~IsSpace(c))

RECURSIVE Flatten(_)
Flatten(ss) == IF ss = <<>> THEN <<>> ELSE Head(ss) \o Flatten(Tail(ss))

\* no sentence of a paragraph of the text is longer than size
NoLongSentence(text, size) ==
    \A i \in 1..Len(NonBlankParas(text)) :
        LET ss == Sentences(<<NonBlankParas(text)[i]>>, SentenceSeps)
        IN  \A j \in 1..Len(ss) : Len(ss[j]) <= size

\* a chunk without the overlap text it was started with and the separator
\* that follows it
Body(c) ==
    IF c.seed = <<>> THEN c.text
    ELSE Drop(c.text, Len(LStrip(c.seed)) + Len(ParaSep))

\* what the paragraphs of a text are expected to leave in the chunks: a
\* paragraph itself, or its sentence chunks when it is longer than size
RECURSIVE ExpectedParts(_, _)
ExpectedParts(paras, size) ==
    IF paras = <<>> THEN <<>>
    ELSE (IF Len(Head(paras)) > size
          THEN split_by_sentences(Head(paras), size)
          ELSE <<Head(paras)>>) \o ExpectedParts(Tail(paras), size)

\* the paragraphs found in the bodies of the chunks, in order
ChunkParts(trace) ==
    Flatten([i \in 1..Len(trace) |-> Split(Body(trace[i]), ParaSep)])

\* C14: Short text is one trimmed chunk: for a text no longer than chunk_size
\* (the empty text and texts with surrounding white space included)
\* chunk_text returns exactly one element, the text with surrounding white
\* space stripped.
C14_ShortTextOneTrimmedChunk ==
    (ck.done /\ Len(ck.text) <= ck.chunk_size)
        => ck.chunks = <<Strip(ck.text)>>

\* C15: Chunk length bound: for chunk_size >= 1, overlap >= 0 and a text
\* longer than chunk_size in which no sentence exceeds chunk_size, every
\* chunk returned by chunk_text is at most chunk_size + overlap long.
C15_ChunkLengthBound ==
    (/\ ck.done
     /\ ck.chunk_size >= 1
     /\ ck.overlap >= 0
     /\ Len(ck.text) > ck.chunk_size
     /\ NoLongSentence(ck.text, ck.chunk_size))
        => \A i \in 1..Len(ck.chunks) :
              Len(ck.chunks[i]) <= ck.chunk_size + ck.overlap

\* C16: Paragraph coverage and order: for a text longer than chunk_size the
\* chunks, each without the overlap text copied from its predecessor, hold
\* every non-blank paragraph of the text exactly once and in the order of the
\* text (a paragraph longer than chunk_size as its sentence chunks); nothing
\* is dropped, duplicated or reordered.
C16_ParagraphCoverage ==
    (ck.done /\ Len(ck.text) > ck.chunk_size) =>
        /\ ChunkParts(ck.trace)
              = ExpectedParts(NonBlankParas(ck.text), ck.chunk_size)
        /\ Letters(Flatten([i \in 1..Len(ck.trace) |-> Body(ck.trace[i])]))
              = Letters(ck.text)
        /\ \A i \in 1..Len(ck.trace) :
              /\ ck.chunks[i] = ck.trace[i].text
              /\ ck.trace[i].seed # <<>> =>
                    /\ i > 1
                    /\ EndsWith(ck.trace[i - 1].text, LStrip(ck.trace[i].seed))
                    /\ StartsWith(ck.trace[i].text,
                                  LStrip(ck.trace[i].seed) \o ParaSep)

C16_Witness ==
    /\ ck.done
    /\ Len(NonBlankParas(ck.text)) = 3
    /\ Len(ck.chunks) >= 3
    /\ \E i \in 1..Len(ck.trace) :
          ck.trace[i].seed # <<>> /\ Len(ck.trace[i].seed) < Len(ck.trace[i - 1].text)
    /\ \E i \in 1..Len(NonBlankParas(ck.text)) :
          Len(NonBlankParas(ck.text)[i]) > ck.chunk_size

\* C17: Overlap seeding: a chunk that chunk_text starts because the next
\* paragraph did not fit the chunk it closed begins with the last `overlap`
\* characters of the closed chunk; for chunk_size=100, overlap=20 and three
\* 80-character paragraphs there are at least 2 chunks and chunk 2 begins
\* with the last 20 characters of chunk 1.
C17_OverlapSeeding ==
    ck.done =>
        /\ \A i \in 1..Len(ck.trace) :
              ck.trace[i].seeded =>
                  StartsWith(ck.chunks[i], LastN(ck.chunks[i - 1], ck.overlap))
        /\ (ck.text = TestChunker.text /\ ck.chunk_size = 100 /\ ck.overlap = 20)
              => /\ Len(ck.chunks) >= 2
                 /\ StartsWith(ck.chunks[2], LastN(ck.chunks[1], 20))

\* a finished generate_questions_matrix call with matrix.total_questions = 0
EmptyMatrix == Done /\ req.op = "questions" /\ req.total = 0

\* C18: Empty question matrix: with matrix.total_questions = 0
\* generate_questions_matrix returns an empty list with no provider call,
\* whatever the service-enabled flag and the key pool are, and the call
\* leaves the key pool (as GeminiService() left it) and the cache unchanged.
C18_EmptyMatrix ==
    EmptyMatrix =>
        /\ req.out = Value("empty_list")
        /\ req.calls = 0
        /\ api_keys = req.pre.keys
        /\ current_index = AfterConstruction.ci
        /\ fallback_index = AfterConstruction.fi
        /\ cache = req.pre.cache

C18_Witness ==
    /\ EmptyMatrix
    /\ req.off
    /\ svc.client = NoClient
    /\ cache # NoCache
    /\ req.out = Value("empty_list")

C18_WitnessEnabled ==
    EmptyMatrix /\ ~req.off /\ svc.client # NoClient

\* a finished operation whose _generate_content call reached its retry loop
ReachedLoop == Done /\ req.ctx # "none" /\ req.max_attempts > 0

\* C19: Attempt budget: a _generate_content call issues at least 1 and at
\* most max(1, min(K, 3)) provider calls, K being the number of credentials
\* available when the call starts (eligible DB credentials plus fallback
\* keys); credentials in cooldown do not enlarge the budget.
C19_AttemptBudget ==
    ReachedLoop =>
        /\ req.calls >= 1
        /\ req.calls <= Max2(1, Min2(req.avail, MAX_RETRIES))

\* what the code bounds the calls by: the keys of total_keys, cooling ones
\* included
C19_BudgetOfTotalKeys ==
    ReachedLoop =>
        /\ req.calls >= 1
        /\ req.calls <= req.max_attempts
        /\ req.max_attempts >= Max2(1, Min2(req.avail, MAX_RETRIES))

\* a finished operation whose _generate_content call failed in every attempt
\* of its retry loop
Exhausted == ReachedLoop /\ req.allfail /\ req.gen.kind = "raise"

\* C20: Error type at exhaustion: when every attempt of a _generate_content
\* call fails, the call raises GeminiRateLimitError if the retry loop
\* classified the last failure as quota/rate-limit (markers rate, quota, 429,
\* resource_exhausted) and not otherwise; the classification of the loop and
\* the one at exhaustion agree on the message.
C20_ErrorTypeAtExhaustion ==
    Exhausted =>
        /\ is_rate_limit(req.last.msg) <=> req.gen = Raise("RateLimit")
        /\ is_rate_limit(req.last.msg) <=> is_quota_at_exhaustion(req.last.msg)

\* C29: Only provider output is cached: generate_summary stores a value in
\* the cache only when a successful provider call produced it; a summary of
\* the local extractive fallback is not cached, so a later identical call
\* does not get it from the cache.
C29_OnlyProviderOutputCached ==
    /\ \A t \in TextIds :
          cache[cache_key("summary", t, 1)] \in {"none", "ai"}
    /\ (CacheHit /\ req.op = "summary") => req.out = Value("ai")

\* C30: Seed never longer than the overlap: for every overlap >= 0, overlap
\* = 0 included, the text chunk_text copies from a closed chunk into the
\* start of the next chunk is at most `overlap` characters long; with
\* overlap = 0 nothing is copied.
C30_SeedWithinOverlap ==
    ck.done =>
        \A i \in 1..Len(ck.trace) :
            /\ Len(ck.trace[i].seed) <= ck.overlap
            /\ ck.overlap = 0 => ck.trace[i].seed = <<>>

\* a finished chat request whose answer was generated and stored and whose
\* usage record could not be written
LedgerFailed ==
    Done /\ req.op = "chat" /\ req.logfail /\ req.gen.kind = "value"

\* C21: Ledger failure does not fail the request: when writing the usage
\* record fails after the answer was generated, the chat workflow still
\* returns the answer with success=true.
C21_LedgerFailureTolerated ==
    LedgerFailed => req.resp = "ok"

\* C22: Artifact immutability: after any sequence of save_summary,
\* save_questions and save_chat_answer calls, the content at a path an
\* earlier save returned is not changed by a later save, and every save
\* writes at a path no earlier save returned.
C22_ArtifactImmutability ==
    obs.op = "save" =>
        /\ \A p \in obs.returned : fs[p] = obs.prev[p]
        /\ obs.path \notin obs.returned

\* a save leaves every other path as it was, and returns the path of an
\* earlier save exactly when that save was of the same category, subject
\* (and user, for a chat answer) in the same second
C22_ImmutableButSameSecond ==
    obs.op = "save" =>
        /\ \A p \in ArtifactPaths \ {obs.path, DirOf(obs.key[1])} :
              fs[p] = obs.prev[p]
        /\ fs[obs.path].kind = "file"
        /\ obs.path \in obs.returned <=> obs.key \in obs.keys

C22_Witness ==
    /\ obs.op = "save"
    /\ obs.path \in obs.returned
    /\ obs.prev[obs.path].kind = "file"
    /\ fs[obs.path] # obs.prev[obs.path]

\* the gateway has rotated after a failed attempt and is about to make the
\* next attempt of the same _generate_content call
Rotated == req.pc = "attempt" /\ req.from # NoClient

\* C23: Rotation leaves the failed key: after an attempt with credential c
\* fails and the gateway rotates, the next attempt of the call uses a
\* credential different from c whenever another credential is eligible, for
\* DB credentials and for the fallback pool.
C23_RotationLeavesFailedKey ==
    (Rotated /\ req.other) => svc.client # req.from

\* C28: No provider call on a cooling credential: the gateway issues no
\* provider call with a DB credential that is cooling down at the time of
\* the call; after the credential of an attempt is put into cooldown and no
\* other credential can be acquired, the call makes no further attempt with
\* it.
C28_NoCallOnCoolingKey ==
    ~req.oncooling

\* the partial summaries of the segments whose provider generation
\* succeeded, in chunk order
SucceededParts ==
    SelectSeq([i \in 1..Len(req.succ) |-> <<i, "ai">>],
              LAMBDA x : req.succ[x[1]])

\* C25: Merge input of multi-part summarization: for a text of N > 1 chunks
\* the partial summaries are generated one segment at a time in chunk order,
\* and the final merge call receives exactly the partial summaries of the
\* segments whose provider generation succeeded, in chunk order; a segment
\* whose generation failed contributes nothing.
C25_MergeInput ==
    /\ req.ctx = "part" => /\ Len(req.parts) = req.i - 1
                           /\ \A j \in 1..Len(req.parts) : req.parts[j][1] = j
    /\ req.ctx = "merge" => /\ Len(req.succ) = NumChunks(req.text)
                            /\ req.parts = SucceededParts

\* what the code hands to the merge call: one summary per segment, in chunk
\* order, the local fallback summary for a segment whose generation failed
C25_MergeOfAllSegments ==
    req.ctx = "merge" =>
        /\ Len(req.parts) = NumChunks(req.text)
        /\ \A j \in 1..Len(req.parts) :
              req.parts[j] = <<j, IF req.succ[j] THEN "ai" ELSE "fallback">>

\* C27: Quota holds under concurrency: in every interleaving of concurrent
\* chat requests of one user, the number of the user's non-cached usage
\* records in the trailing hour never exceeds the hourly limit.
C27_QuotaUnderConcurrency ==
    RecentRequests(usage_log, ChatUser, now) <= rate_limit

\* C26: Thread-safe singleton: when several threads construct
\* HydraKeyManager() concurrently, every one of them obtains the instance,
\* its state is initialized exactly once, and no constructor call resets the
\* round-robin indices or replaces the lock object after another thread has
\* started using the instance.
C26_ThreadSafeSingleton ==
    /\ \A t \in DOMAIN th.pc : th.pc[t] # "raised"
    /\ th.sh.inits <= 1
    /\ ~th.sh.reset

\* what __new__ does guarantee: at most one instance is ever created
C26_OneInstance ==
    /\ Cardinality({t \in DOMAIN th.pc : th.pc[t] \in {"create", "flag"}}) <= 1
    /\ \A t \in DOMAIN th.pc :
          th.pc[t] \in {"create", "flag"} => th.sh.cls_lock = t

\* what the repeated __init__ costs (violated): a get_next_key() call that
\* finds the keys of the environment gone, two calls inside the locked body
\* at once, and an index that counts fewer calls than returned
C26_GetNextKeyUnharmed ==
    /\ \A t \in DOMAIN th.pc :
          th.pc[t] \notin {"no_keys", "zero_division", "index_error"}
    /\ ~th.sh.both
    /\ (\A t \in DOMAIN th.pc : th.pc[t] = "done" /\ ~th.sh.reset)
          => fallback_index = Cardinality(DOMAIN th.pc)

\* C24: Pool mutation under the lock: in every interleaving of concurrent
\* gateway calls, each read-modify-write of shared key-pool state (the
\* round-robin indices, and a credential's status, cooldown expiry, error
\* count and request counters changed by mark_error / mark_success) is
\* performed while the key manager's lock is held, so two threads never
\* update the same credential or index from the same stale value.
C24_PoolMutationUnderLock ==
    /\ ~th.sh.index_unlocked
    /\ ~th.sh.unlocked
    /\ ~th.sh.stale

\* the part that holds: the round-robin indices change only under the lock
C24_IndicesUnderLock == ~th.sh.index_unlocked

\* what a stale write costs (violated): every thread has recorded a
\* failure of the same credential and none a success, yet its error count
\* is below the number of failures recorded
C24_NoLostError ==
    \A k \in KeyIds :
        (\A t \in DOMAIN th.pc :
            /\ th.pc[t] = "rotate"
            /\ th.loc[t].id = k)
        => api_keys[k].error_count >= Cardinality(DOMAIN th.pc)

Spec == SpecKeys
====
